---- MODULE Spec2Model ----
(***************************************************************************)
(* A model of mls-roster-profiles: the page text extractor                 *)
(* (pypdf/reader.py, pypdf/models.py), the document loop                   *)
(* (RosterProfileRelease.from_pdf) and the roster assembler                *)
(* (RosterProfile.to_team).                                                *)
(*                                                                         *)
(* Strings are sequences of one-character strings.  The six delimiter      *)
(* glyphs and the en-dash are written as the tokens below, each standing   *)
(* for one character.  Lengths in text space are kept in tenths of a unit  *)
(* (0.3 is 3, 1.0 is 10); font sizes and bounding boxes are whole units.   *)
(***************************************************************************)
EXTENDS Integers, Sequences, FiniteSets, TLC

VARIABLES
    \* Page.extract_text: the Page, where the call stands, the operators
    \* visited so far, the text returned
    page, pc, nops, extracted,
    \* RosterProfileRelease.from_pdf: the pages of the document, the pages
    \* done, the locals teams and release_date, the pages handed to
    \* grammar.parse, where the call stands, the release returned
    pages, idx, teams, release_date, parsed, pdf_pc, release,
    \* RosterProfile.to_team: the validated record, the local players, the
    \* Team returned, where the call stands, the warnings logged
    profile, players, team, team_pc, warnings,
    \* one call of a function on its own: the function and its arguments,
    \* and what the call gave
    fn_call, fn_result

pageVars == <<page, pc, nops, extracted>>
pdfVars == <<pages, idx, teams, release_date, parsed, pdf_pc, release>>
teamVars == <<profile, players, team, team_pc, warnings>>
fnVars == <<fn_call, fn_result>>
vars == <<pageVars, pdfVars, teamVars, fnVars>>

(***************************************************************************)
(* Bounds of the model.                                                    *)
(***************************************************************************)
MaxOps == 5

(***************************************************************************)
(* Python str and numeric helpers.                                         *)
(***************************************************************************)
Digits == <<"0","1","2","3","4","5","6","7","8","9">>

\* the characters str.strip() removes; END_OBJECT is "\n"
Whitespace == {" ", "\n", "\t"}

LowerOf ==
    [A |-> "a", B |-> "b", C |-> "c", D |-> "d", E |-> "e", F |-> "f", G
     |-> "g", H |-> "h", I |-> "i", J |-> "j", K |-> "k", L |-> "l", M
     |-> "m", N |-> "n", O |-> "o", P |-> "p", Q |-> "q", R |-> "r", S
     |-> "s", T |-> "t", U |-> "u", V |-> "v", W |-> "w", X |-> "x", Y
     |-> "y", Z |-> "z"]

LowerChar(c) == IF c \in DOMAIN LowerOf THEN LowerOf[c] ELSE c

\* str.lower()
Lower(s) == [i \in 1..Len(s) |-> LowerChar(s[i])]

\* str.startswith(prefix)
StartsWith(s, prefix) ==
    /\ Len(prefix) <= Len(s)
    /\ SubSeq(s, 1, Len(prefix)) = prefix

\* str.endswith(suffix)
EndsWith(s, suffix) ==
    /\ Len(suffix) <= Len(s)
    /\ SubSeq(s, Len(s) - Len(suffix) + 1, Len(s)) = suffix

\* `sub in s`
Contains(s, sub) ==
    \E i \in 1..(Len(s) - Len(sub) + 1) : SubSeq(s, i, i + Len(sub) - 1) = sub

\* str.strip()
Strip(s) ==
    LET keep == {i \in 1..Len(s) : s[i] \notin Whitespace}
    IN  IF keep = {} THEN <<>>
        ELSE LET lo == CHOOSE i \in keep : \A j \in keep : i <= j
                 hi == CHOOSE i \in keep : \A j \in keep : j <= i
             IN  SubSeq(s, lo, hi)

\* "".join(parts)
RECURSIVE Join(_)
Join(parts) ==
    IF parts = <<>> THEN <<>> ELSE Head(parts) \o Join(Tail(parts))

\* math.ceil(v / 10) for v in tenths
CeilTenths(v) == -((-v) \div 10)

\* math.ceil(v / 2)
CeilHalf(v) == -((-v) \div 2)

RECURSIVE NatToStr(_)
NatToStr(n) ==
    IF n < 10 THEN <<Digits[n + 1]>>
    ELSE NatToStr(n \div 10) \o <<Digits[(n % 10) + 1]>>

\* str(n) for an int
IntToStr(n) == IF n < 0 THEN <<"-">> \o NatToStr(-n) ELSE NatToStr(n)

\* a character \d matches
IsDigit(c) == \E i \in DOMAIN Digits : Digits[i] = c

DigitValue(c) == (CHOOSE i \in DOMAIN Digits : Digits[i] = c) - 1

\* int(s) for a string of digits
RECURSIVE ToInt(_)
ToInt(s) ==
    IF s = <<>> THEN 0
    ELSE 10 * ToInt(SubSeq(s, 1, Len(s) - 1)) + DigitValue(s[Len(s)])

\* None where a str is expected, and str(x)
NoStr == <<"None">>
Str(x) == IF x = NoStr THEN <<"N","o","n","e">> ELSE x

(***************************************************************************)
(* pypdf/enum.py                                                           *)
(***************************************************************************)
END_OBJECT == "\n"
TAB == "TAB"
PRECEDES == "PRECEDES"
RETURN == "RETURN"
ATTRIBUTES_OPEN == "ATTR_OPEN"
ATTRIBUTES_CLOSE == "ATTR_CLOSE"

DelimiterGlyph ==
    {END_OBJECT, TAB, PRECEDES, RETURN, ATTRIBUTES_OPEN, ATTRIBUTES_CLOSE}

LIGHT == <<"l","i","g","h","t">>
REGULAR == <<"r","e","g","u","l","a","r">>
BOLD == <<"b","o","l","d">>

(***************************************************************************)
(* The page's /Resources /Font dictionary: two fonts, each with a          *)
(* ToUnicode table (the entry -1 is the one pypdf adds), FirstChar,        *)
(* LastChar and Widths.                                                    *)
(***************************************************************************)
FontKeys == {"/F1", "/F2", "/F3", "/F4"}

\* /F3 maps code 2 to the glyph TAB; /F4 maps code 2 to a glyph of two
\* characters, the second of them TAB
FontDictionaries ==
    [k \in FontKeys |->
        CASE k = "/F1" ->
             [BaseFont |-> <<"A","r","i","a","l">>,
              FirstChar |-> 1, LastChar |-> 2, Widths |-> <<500, 300>>,
              ToUnicode |-> (-1 :> <<>>) @@ (1 :> <<"a">>) @@ (2 :> <<" ">>)]
          [] k = "/F2" ->
             [BaseFont |-> <<"A","r","i","a","l","-","B","o","l","d">>,
              FirstChar |-> 1, LastChar |-> 2, Widths |-> <<600, 300>>,
              ToUnicode |-> (-1 :> <<>>) @@ (1 :> <<"a">>) @@ (2 :> <<" ">>)]
          [] k = "/F3" ->
             [BaseFont |-> <<"S","y","m","b","o","l">>,
              FirstChar |-> 1, LastChar |-> 2, Widths |-> <<500, 300>>,
              ToUnicode |-> (-1 :> <<>>) @@ (1 :> <<"a">>) @@ (2 :> <<TAB>>)]
          [] OTHER ->
             [BaseFont |-> <<"S","y","m","b","o","l","-","L","i","g","h","t">>,
              FirstChar |-> 1, LastChar |-> 2, Widths |-> <<500, 300>>,
              ToUnicode |-> (-1 :> <<>>) @@ (1 :> <<"a">>) @@ (2 :> <<"a", TAB>>)]]

(***************************************************************************)
(* pypdf/models.py                                                         *)
(***************************************************************************)
None == [none |-> TRUE]

\* Font.weight
Weight(font) ==
    IF Contains(Lower(font.font), BOLD) THEN BOLD
    ELSE IF Contains(Lower(font.font), LIGHT) THEN LIGHT
    ELSE REGULAR

\* Font.raise_overlapping_glyphs: TRUE when it raises
OverlappingGlyphs(glyphs) ==
    \E g \in glyphs : \E d \in DelimiterGlyph : g = <<d>>

\* the cached properties of the Font of each font dictionary: characters
\* before validation (the table without pypdf's entry -1), whether reading
\* characters raises, and widths
CachedProperties ==
    [key \in FontKeys |->
        LET d == FontDictionaries[key]
            characters == [c \in (DOMAIN d.ToUnicode) \ {-1} |-> d.ToUnicode[c]]
        IN  [characters |-> characters,
             raises |-> OverlappingGlyphs({characters[c] : c \in DOMAIN characters}),
             widths |-> [code \in {i \in d.FirstChar..d.LastChar : i \in DOMAIN characters}
                            |-> d.Widths[code - d.FirstChar + 1]]]]

\* Font.characters, before validation
CharacterTable(font) == CachedProperties[font.font_dictionary].characters

\* Font.characters raises
CharactersRaises(font) == CachedProperties[font.font_dictionary].raises

\* Font.widths
FontWidths(font) == CachedProperties[font.font_dictionary].widths

\* Font.from_operands
FontFromOperands(key, size) ==
    [font |-> FontDictionaries[key].BaseFont, size |-> size, font_dictionary |-> key]

\* Font.decode: ok is FALSE when it raises
RECURSIVE DecodeFrom(_, _, _, _)
DecodeFrom(font, byte_string, content, width) ==
    IF byte_string = <<>> THEN [ok |-> TRUE, content |-> content, width |-> width]
    ELSE LET char_idx == Head(byte_string)
         IN  IF \/ CharactersRaises(font)
                \/ char_idx \notin DOMAIN CharacterTable(font)
                \/ char_idx \notin DOMAIN FontWidths(font)
             THEN [ok |-> FALSE, content |-> content, width |-> width]
             ELSE DecodeFrom(font, Tail(byte_string),
                             content \o CharacterTable(font)[char_idx],
                             width + FontWidths(font)[char_idx])

Decode(font, byte_string) == DecodeFrom(font, byte_string, <<>>, 0)

\* BoundingBox(x_min=..., y_min=...) from floats given in tenths
BoundingBox(x_min, y_min) ==
    [x_min |-> CeilTenths(x_min), y_min |-> CeilTenths(y_min), width |-> 0, height |-> 0]

\* BoundingBox.x_max
x_max(box) == box.x_min + box.width

\* BoundingBox.x_center: ceil(x_min + width / 2)
x_center(box) == box.x_min + CeilHalf(box.width)

\* TextObject()
TextObject == [content |-> <<>>, font |-> None, bounding_box |-> None]

\* TextObject.serialize raises
SerializeRaises(text_object) ==
    text_object.font = None \/ text_object.bounding_box = None

\* TextObject.serialize with x_center and x_max exchanged
SerializeSwapped(text_object) ==
    LET box == text_object.bounding_box
        x_coordinates == <<box.x_min, x_max(box), x_center(box)>>
    IN  text_object.content
        \o <<ATTRIBUTES_OPEN>>
        \o Strip(IntToStr(x_coordinates[1])) \o <<"|">>
        \o Strip(IntToStr(x_coordinates[2])) \o <<"|">>
        \o Strip(IntToStr(x_coordinates[3])) \o <<"|">>
        \o Strip(Weight(text_object.font))
        \o <<ATTRIBUTES_CLOSE>>
        \o <<END_OBJECT>>

\* TextObject.serialize
Serialize(text_object) ==
    LET box == text_object.bounding_box
        x_coordinates == <<box.x_min, x_center(box), x_max(box)>>
    IN  text_object.content
        \o <<ATTRIBUTES_OPEN>>
        \o Strip(IntToStr(x_coordinates[1])) \o <<"|">>
        \o Strip(IntToStr(x_coordinates[2])) \o <<"|">>
        \o Strip(IntToStr(x_coordinates[3])) \o <<"|">>
        \o Strip(Weight(text_object.font))
        \o <<ATTRIBUTES_CLOSE>>
        \o <<END_OBJECT>>

(***************************************************************************)
(* pypdf/reader.py: class Page.  The variable page holds the attributes of *)
(* one Page; a handler is an operator from a Page to the Page it leaves.   *)
(* A handler that can raise returns [page, raised].                        *)
(***************************************************************************)
x_threshold == 3
y_threshold == 10

\* Page.__init__
NewPage ==
    [text_objects |-> <<>>,
     _text_object |-> TextObject,
     _font |-> None,
     _font_stack |-> <<>>,
     _x_displacement |-> 0,
     _td_x_translation |-> 0,
     _td_y_translation |-> 0]

Returns(p) == [page |-> p, raised |-> FALSE]
Raises(p) == [page |-> p, raised |-> TRUE]

Abs(v) == IF v < 0 THEN -v ELSE v

\* Page._end_text_object
_end_text_object(p) ==
    LET content == p._text_object.content
        unreturned == IF EndsWith(content, <<RETURN>>)
                      THEN SubSeq(content, 1, Len(content) - 1)
                      ELSE content
        finished == [p._text_object EXCEPT !.content = Strip(unreturned),
                                           !.font = p._font]
    IN  IF content # <<>>
        THEN [p EXCEPT !.text_objects = Append(@, finished),
                       !._text_object = TextObject,
                       !._x_displacement = 0]
        ELSE [p EXCEPT !._text_object = TextObject,
                       !._x_displacement = 0]

\* Page._save_graphics_state
_save_graphics_state(p) ==
    [p EXCEPT !._font_stack = Append(@, p._font)]

\* Page._restore_graphics_state with the two statements exchanged: the font is
\* popped before the text object is ended
_restore_graphics_state_popping_first(p) ==
    LET depth == Len(p._font_stack)
    IN  IF depth = 0 THEN Raises(p)
        ELSE Returns(_end_text_object([p EXCEPT !._font = p._font_stack[depth],
                                                !._font_stack = SubSeq(@, 1, depth - 1)]))

\* Page._restore_graphics_state: list.pop() raises on an empty stack
_restore_graphics_state(p) ==
    LET ended == _end_text_object(p)
        depth == Len(ended._font_stack)
    IN  IF depth = 0 THEN Raises(ended)
        ELSE Returns([ended EXCEPT !._font = ended._font_stack[depth],
                                   !._font_stack = SubSeq(@, 1, depth - 1)])

\* Page._move_text_position, operands in tenths
_move_text_position(p, operands) ==
    LET x_translation == operands[1]
        y_translation == operands[2]
        content == p._text_object.content
        add(glyph) == [p EXCEPT !._text_object.content = @ \o <<glyph>>]
    IN  IF /\ y_translation < 0
           /\ Abs(x_translation + p._td_x_translation) < x_threshold
        THEN Returns([add(RETURN) EXCEPT
                        !._td_x_translation = 0,
                        !._td_y_translation = @ + y_translation,
                        !._x_displacement = 0])
        ELSE IF /\ y_translation > 0
                /\ Abs(y_translation + p._td_y_translation) < y_threshold
        THEN Returns([add(IF x_translation < 0 THEN PRECEDES ELSE TAB) EXCEPT
                        !._td_y_translation = 0,
                        !._td_x_translation = 0,
                        !._x_displacement = 0])
        ELSE IF Abs(y_translation) >= y_threshold
        THEN Returns([_end_text_object(p) EXCEPT !._x_displacement = 0])
        ELSE IF x_translation < 0 /\ content # <<>>
        THEN Returns([add(PRECEDES) EXCEPT !._x_displacement = 0])
        ELSE IF x_translation > 0 /\ content # <<>>
        THEN IF p._font = None THEN Raises(p)
             ELSE IF x_translation - p._x_displacement > x_threshold * p._font.size
             THEN Returns([add(TAB) EXCEPT !._x_displacement = 0])
             ELSE Returns([p EXCEPT !._td_x_translation = @ + x_translation,
                                    !._x_displacement = 0])
        ELSE Returns([p EXCEPT !._x_displacement = 0])

\* Page._set_font without the call of _end_text_object
_set_font_without_ending(p, operands) ==
    IF Len(operands) # 2 \/ operands[1] \notin FontKeys THEN Raises(p)
    ELSE Returns([p EXCEPT !._font = FontFromOperands(operands[1], operands[2])])

\* Page._set_font: Font.from_operands raises when the page has no such font
_set_font(p, operands) ==
    LET ended == _end_text_object(p)
    IN  IF Len(operands) # 2 \/ operands[1] \notin FontKeys THEN Raises(ended)
        ELSE Returns([ended EXCEPT !._font = FontFromOperands(operands[1], operands[2])])

\* Page._set_origin without the test of bounding_box: every show sets the origin
_set_origin_at_every_show(p, cm_matrix, tm_matrix) ==
    [p EXCEPT !._text_object.bounding_box =
        BoundingBox(tm_matrix[5] * cm_matrix[1] + tm_matrix[6] * cm_matrix[3] + cm_matrix[5],
                    tm_matrix[5] * cm_matrix[2] + tm_matrix[6] * cm_matrix[4] + cm_matrix[6])]

\* Page._set_origin: the translation row of tm * cm, entries 5 and 6 in tenths
_set_origin(p, cm_matrix, tm_matrix) ==
    IF p._text_object.bounding_box = None
    THEN [p EXCEPT !._text_object.bounding_box =
            BoundingBox(tm_matrix[5] * cm_matrix[1] + tm_matrix[6] * cm_matrix[3] + cm_matrix[5],
                        tm_matrix[5] * cm_matrix[2] + tm_matrix[6] * cm_matrix[4] + cm_matrix[6])]
    ELSE p

\* bounding_box.width = x_displacement, without the max
WidenToDisplacement(box, x_displacement) ==
    [box EXCEPT !.width = CeilTenths(x_displacement)]

\* bounding_box.width = max(width, x_displacement), with the ceiling validator
WidenTo(box, x_displacement) ==
    IF box.width * 10 >= x_displacement THEN box
    ELSE [box EXCEPT !.width = CeilTenths(x_displacement)]

\* Page._handle_text_string
_handle_text_string(p, byte_string) ==
    IF p._font = None THEN Raises(p)
    ELSE LET decoded == Decode(p._font, byte_string)
             displacement == (decoded.width * p._font.size) \div 100
             moved == p._x_displacement + displacement
         IN  IF ~decoded.ok THEN Raises(p)
             ELSE Returns([p EXCEPT
                    !._text_object.content = @ \o decoded.content,
                    !._x_displacement = moved,
                    !._text_object.bounding_box = WidenTo(@, moved)])

\* Page._show_text_string
_show_text_string(p, operands, cm_matrix, tm_matrix) ==
    _handle_text_string(_set_origin(p, cm_matrix, tm_matrix), operands[1])

\* the loop of Page._show_text_strings; an operand is [bytes |-> ...] or [number |-> ...]
RECURSIVE ShowEach(_, _)
ShowEach(p, operands) ==
    IF operands = <<>> THEN Returns(p)
    ELSE LET operand == Head(operands)
         IN  IF "bytes" \in DOMAIN operand
             THEN LET shown == _handle_text_string(p, operand.bytes)
                  IN  IF shown.raised THEN shown
                      ELSE ShowEach(shown.page, Tail(operands))
             ELSE IF p._font = None THEN Raises(p)
             ELSE LET moved == p._x_displacement
                                 + (operand.number * p._font.size) \div 100
                  IN  ShowEach([p EXCEPT
                                   !._x_displacement = moved,
                                   !._text_object.bounding_box = WidenTo(@, moved)],
                               Tail(operands))

\* Page._show_text_strings
_show_text_strings(p, operands, cm_matrix, tm_matrix) ==
    ShowEach(_set_origin(p, cm_matrix, tm_matrix), operands[1])

(***************************************************************************)
(* The operands the content stream can carry.                              *)
(***************************************************************************)
\* Td [tx ty], in tenths
TdOperands ==
    {<<0, -100>>, <<-40, -100>>, <<40, -100>>, <<0, 100>>, <<0, 5>>, <<-40, 5>>,
     <<-40, 0>>, <<40, 0>>, <<100, 0>>}

\* Tf [font size]; the page has no font /F9
TfOperands == {<<"/F1", 10>>, <<"/F2", 10>>, <<"/F3", 10>>, <<"/F9", 10>>}

\* Tj [s]; no font has a code 3
TjOperands == {<< <<1>> >>, << <<2>> >>, << <<3>> >>}

\* TJ [[s|n ...]]
TJOperands ==
    {<< << [bytes |-> <<1>>], [number |-> -700], [bytes |-> <<2>>] >> >>,
     << << [number |-> 300], [bytes |-> <<1>>] >> >>}

\* the current transformation matrix and the text matrix of a show operation
Matrices ==
    {[cm |-> <<1, 0, 0, 1, 0, 0>>, tm |-> <<1, 0, 0, 1, 725, 7000>>],
     [cm |-> <<2, 0, 0, 2, 100, 0>>, tm |-> <<1, 0, 0, 1, -105, 200>>]}

(***************************************************************************)
(* Page.extract_text: the visitor is called once per operator of the       *)
(* content stream, then the text objects are serialized and joined.        *)
(***************************************************************************)
Visit(result) ==
    /\ pc = "running"
    /\ nops < MaxOps
    /\ page' = result.page
    /\ pc' = IF result.raised THEN "raised" ELSE "running"
    /\ nops' = nops + 1
    /\ UNCHANGED <<extracted, pdfVars, teamVars, fnVars>>

END_TEXT_OBJECT == Visit(Returns(_end_text_object(page)))

SAVE_GRAPHICS_STATE == Visit(Returns(_save_graphics_state(page)))

RESTORE_GRAPHICS_STATE == Visit(_restore_graphics_state(page))

MOVE_TEXT_POSITION ==
    \E operands \in TdOperands : Visit(_move_text_position(page, operands))

SET_FONT ==
    \E operands \in TfOperands : Visit(_set_font(page, operands))

SHOW_TEXT_STRING ==
    \E operands \in TjOperands, m \in Matrices :
        Visit(_show_text_string(page, operands, m.cm, m.tm))

SHOW_TEXT_STRINGS ==
    \E operands \in TJOperands, m \in Matrices :
        Visit(_show_text_strings(page, operands, m.cm, m.tm))

\* the end of the content stream: serialize and join
extract_text ==
    /\ pc = "running"
    /\ IF \E i \in DOMAIN page.text_objects : SerializeRaises(page.text_objects[i])
       THEN pc' = "raised" /\ extracted' = None
       ELSE /\ pc' = "returned"
            /\ extracted' = Join([i \in DOMAIN page.text_objects |->
                                     Serialize(page.text_objects[i])])
    /\ UNCHANGED <<page, nops, pdfVars, teamVars, fnVars>>

\* no call of from_pdf, of to_team, of extract_text under way
NoPdf ==
    /\ pages = <<>> /\ idx = 0 /\ teams = <<>> /\ release_date = "None"
    /\ parsed = <<>> /\ pdf_pc = "idle" /\ release = None

NoTeam ==
    /\ profile = None /\ players = <<>> /\ team = None /\ team_pc = "idle"
    /\ warnings = <<>>

NoPage == page = NewPage /\ pc = "idle" /\ nops = 0 /\ extracted = None

NoFn == fn_call = None /\ fn_result = None

InitPage ==
    /\ page = NewPage
    /\ pc = "running"
    /\ nops = 0
    /\ extracted = None
    /\ NoPdf
    /\ NoTeam
    /\ NoFn

NextPage ==
    \/ END_TEXT_OBJECT
    \/ SAVE_GRAPHICS_STATE
    \/ RESTORE_GRAPHICS_STATE
    \/ MOVE_TEXT_POSITION
    \/ SET_FONT
    \/ SHOW_TEXT_STRING
    \/ SHOW_TEXT_STRINGS
    \/ extract_text

SpecPage == InitPage /\ [][NextPage]_vars

(***************************************************************************)
(* Claims about the page text extractor.                                   *)
(***************************************************************************)
Last(s) == s[Len(s)]

\* C1: every TextObject appended to the page's text_objects has a font and a
\* bounding box, whatever operators were processed, also when its content came
\* from Td delimiters alone or no Tf occurred.
C1_FontAndBoxSet ==
    \A i \in DOMAIN page.text_objects :
        /\ page.text_objects[i].font # None
        /\ page.text_objects[i].bounding_box # None

\* C2: the content of every TextObject appended to text_objects neither starts
\* nor ends with whitespace and does not end with RETURN.
C2_ContentTrimmed ==
    \A i \in DOMAIN page.text_objects :
        LET content == page.text_objects[i].content
        IN  content # <<>> =>
                /\ Head(content) \notin Whitespace
                /\ Last(content) \notin Whitespace
                /\ Last(content) # RETURN

\* the pieces of s that sep terminates, then the rest
RECURSIVE SplitAt(_, _)
SplitAt(s, sep) ==
    IF \E i \in DOMAIN s : s[i] = sep
    THEN LET at == CHOOSE i \in DOMAIN s : s[i] = sep /\ \A j \in 1..(i - 1) : s[j] # sep
         IN  <<SubSeq(s, 1, at - 1)>> \o SplitAt(SubSeq(s, at + 1, Len(s)), sep)
    ELSE <<s>>

IsNumeral(s) ==
    /\ s # <<>>
    /\ \A i \in DOMAIN s : IsDigit(s[i])

\* s reads as the integer n
ReadsAs(s, n) ==
    IF s # <<>> /\ Head(s) = "-"
    THEN IsNumeral(Tail(s)) /\ ToInt(Tail(s)) = -n
    ELSE IsNumeral(s) /\ ToInt(s) = n

\* segment is content, ATTRIBUTES_OPEN, x_min|x_center|x_max|weight, ATTRIBUTES_CLOSE
\* for the text object (END_OBJECT is cut off by the split)
IsSegmentOf(segment, text_object) ==
    LET content == text_object.content
        box == text_object.bounding_box
        rest == SubSeq(segment, Len(content) + 1, Len(segment))
        fields == SplitAt(SubSeq(rest, 2, Len(rest) - 1), "|")
    IN  /\ Len(segment) >= Len(content) + 2
        /\ SubSeq(segment, 1, Len(content)) = content
        /\ Head(rest) = ATTRIBUTES_OPEN
        /\ Last(rest) = ATTRIBUTES_CLOSE
        /\ Len(fields) = 4
        /\ ReadsAs(fields[1], box.x_min)
        /\ ReadsAs(fields[2], CeilHalf(2 * box.x_min + box.width))
        /\ ReadsAs(fields[3], box.x_min + box.width)
        /\ fields[4] = Weight(text_object.font)

C3_ReturnedText ==
    pc = "returned" =>
        LET segments == SplitAt(extracted, END_OBJECT)
            n == Len(page.text_objects)
        IN  /\ Len(segments) = n + 1
            /\ segments[n + 1] = <<>>
            /\ \A i \in 1..n : IsSegmentOf(segments[i], page.text_objects[i])

C3_AppendOnly ==
    /\ Len(page.text_objects') >= Len(page.text_objects)
    /\ SubSeq(page.text_objects', 1, Len(page.text_objects)) = page.text_objects

\* C3: the text extract_text returns is the serialized text objects joined in
\* the order they were finalized, one segment content, ATTRIBUTES_OPEN,
\* x_min|x_center|x_max|weight, ATTRIBUTES_CLOSE, END_OBJECT for each, and no
\* operator removes, reorders or changes an object already in text_objects.
C3_ExtractedText == [](C3_ReturnedText) /\ [][C3_AppendOnly]_vars

C3_Witness ==
    /\ pc = "returned"
    /\ Len(page.text_objects) >= 2
    /\ page.text_objects[1] # page.text_objects[2]
    /\ page.text_objects[1].bounding_box.width > 1

(***************************************************************************)
(* __init__.py: RosterProfileRelease.from_pdf.  A page of the document is  *)
(* given by what its calls do: extract_text raises or returns text,        *)
(* grammar.parse raises or returns a tree, visitor.serialize raises or     *)
(* returns a Team and the page's release date.                             *)
(***************************************************************************)
MaxPages == 2

SENIOR_ROSTER == <<"S","E","N","I","O","R"," ","R","O","S","T","E","R">>

Attributes == <<ATTRIBUTES_OPEN>> \o <<"7","2","|","8","0","|","8","8","|","b","o","l","d">> \o <<ATTRIBUTES_CLOSE, END_OBJECT>>

\* the texts Page.extract_text can return for a page
PageTexts ==
    {<<"S","E","N","I","O","R"," ","R","O","S","T","E","R">> \o Attributes \o <<"J","o">> \o Attributes,
     <<"M","L","S">> \o Attributes,
     <<"s","e","n","i","o","r"," ","r","o","s","t","e","r">> \o Attributes,
     <<"S","E","N","I","O","R"," ","R","O","-">> \o Attributes \o <<"S","T","E","R">> \o Attributes}

PageOutcomes == {"extract_text raises", "parse raises", "serialize raises", "team"}

ReleaseDates == {"2025-07-07", "2025-09-02"}

Pages == [text : PageTexts, outcome : PageOutcomes, release_date : ReleaseDates]

\* where the match of -ATTRIBUTES_OPEN.*ATTRIBUTES_CLOSE\n that starts at the
\* head of s ends, 0 if there is none ("." matches no newline)
MatchEnd(s) ==
    IF /\ Len(s) >= 4
       /\ s[1] = "-"
       /\ s[2] = ATTRIBUTES_OPEN
       /\ \E n \in 3..Len(s) : s[n] = END_OBJECT
    THEN LET n == CHOOSE n \in 3..Len(s) :
                    s[n] = END_OBJECT /\ \A k \in 3..(n - 1) : s[k] # END_OBJECT
         IN  IF n >= 4 /\ s[n - 1] = ATTRIBUTES_CLOSE THEN n ELSE 0
    ELSE 0

\* RosterProfileRelease._postprocess_text: re.sub of the pattern by ""
RECURSIVE _postprocess_text(_)
_postprocess_text(text) ==
    IF text = <<>> THEN <<>>
    ELSE IF MatchEnd(text) > 0
    THEN _postprocess_text(SubSeq(text, MatchEnd(text) + 1, Len(text)))
    ELSE <<Head(text)>> \o _postprocess_text(Tail(text))

\* the test of from_pdf on a page's text, raw text in place of the cleaned one
IsRosterPageRaw(page_) == Contains(page_.text, SENIOR_ROSTER)

\* `"SENIOR ROSTER" in text` after text = cls._postprocess_text(text)
IsRosterPage(page_) == Contains(_postprocess_text(page_.text), SENIOR_ROSTER)

\* RosterProfileRelease._map_ids: sets id_ (and the name) of the teams it can map
_map_ids(teams_, mapped) ==
    [i \in DOMAIN teams_ |-> [teams_[i] EXCEPT !.id_ = IF mapped[i] THEN "id" ELSE "None"]]

\* the loop body with the page's exception caught and the page skipped
from_pdf_page_skipping ==
    /\ pdf_pc = "loop"
    /\ idx < Len(pages)
    /\ LET page_ == pages[idx + 1]
       IN  IF page_.outcome = "extract_text raises"
           THEN UNCHANGED <<teams, release_date, parsed>>
           ELSE IF IsRosterPage(page_)
           THEN /\ parsed' = Append(parsed, idx + 1)
                /\ IF page_.outcome = "team"
                   THEN /\ teams' = Append(teams, [page |-> idx + 1, id_ |-> "None"])
                        /\ release_date' = page_.release_date
                   ELSE UNCHANGED <<teams, release_date>>
           ELSE UNCHANGED <<teams, release_date, parsed>>
    /\ idx' = idx + 1
    /\ UNCHANGED <<pdf_pc, pages, release, pageVars, teamVars, fnVars>>

\* one iteration of the loop of from_pdf, an exception left where it is raised
from_pdf_page ==
    /\ pdf_pc = "loop"
    /\ idx < Len(pages)
    /\ LET page_ == pages[idx + 1]
       IN  IF page_.outcome = "extract_text raises"
           THEN pdf_pc' = "raised" /\ UNCHANGED <<idx, teams, release_date, parsed>>
           ELSE IF IsRosterPage(page_)
           THEN /\ parsed' = Append(parsed, idx + 1)
                /\ IF page_.outcome = "team"
                   THEN /\ teams' = Append(teams, [page |-> idx + 1, id_ |-> "None"])
                        /\ release_date' = page_.release_date
                        /\ idx' = idx + 1
                        /\ UNCHANGED pdf_pc
                   ELSE pdf_pc' = "raised" /\ UNCHANGED <<idx, teams, release_date>>
           ELSE idx' = idx + 1 /\ UNCHANGED <<teams, release_date, parsed, pdf_pc>>
    /\ UNCHANGED <<pages, release, pageVars, teamVars, fnVars>>

\* after the loop: _map_ids, then the release; validating the release raises
\* when no page set release_date
from_pdf_return ==
    /\ pdf_pc = "loop"
    /\ idx = Len(pages)
    /\ \E mapped \in [DOMAIN teams -> BOOLEAN] :
        /\ teams' = _map_ids(teams, mapped)
        /\ IF release_date = "None"
           THEN pdf_pc' = "raised" /\ UNCHANGED release
           ELSE /\ pdf_pc' = "returned"
                /\ release' = [release_date |-> release_date, teams |-> teams']
    /\ UNCHANGED <<pages, idx, release_date, parsed, pageVars, teamVars, fnVars>>

InitPdf ==
    /\ pages \in UNION {[1..n -> Pages] : n \in 0..MaxPages}
    /\ idx = 0
    /\ teams = <<>>
    /\ release_date = "None"
    /\ parsed = <<>>
    /\ pdf_pc = "loop"
    /\ release = None
    /\ NoPage
    /\ NoTeam
    /\ NoFn

NextPdf == from_pdf_page \/ from_pdf_return

SpecPdf == InitPdf /\ [][NextPdf]_vars

(***************************************************************************)
(* Claims about from_pdf.                                                  *)
(***************************************************************************)
\* the cleaned text of page i holds SENIOR ROSTER at some position
HasSeniorRoster(i) ==
    LET text == _postprocess_text(pages[i].text)
    IN  \E at \in 0..(Len(text) - Len(SENIOR_ROSTER)) :
            \A j \in DOMAIN SENIOR_ROSTER : text[at + j] = SENIOR_ROSTER[j]

\* the pages among the first n that hold SENIOR ROSTER, in page order
RECURSIVE RosterPagesUpTo(_)
RosterPagesUpTo(n) ==
    IF n = 0 THEN <<>>
    ELSE IF HasSeniorRoster(n) THEN Append(RosterPagesUpTo(n - 1), n)
    ELSE RosterPagesUpTo(n - 1)

PagesOf(teams_) == [i \in DOMAIN teams_ |-> teams_[i].page]

\* C4: from_pdf parses exactly the pages whose cleaned text contains
\* "SENIOR ROSTER": the teams are one per such page, in page order, and no
\* other page is handed to the grammar.
C4_RosterPagesParsed ==
    /\ PagesOf(teams) = RosterPagesUpTo(idx)
    /\ \A k \in DOMAIN parsed : HasSeniorRoster(parsed[k])
    /\ parsed \in {RosterPagesUpTo(idx),
                   RosterPagesUpTo(IF idx < Len(pages) THEN idx + 1 ELSE idx)}
    /\ pdf_pc = "returned" =>
        /\ PagesOf(release.teams) = RosterPagesUpTo(Len(pages))
        /\ parsed = RosterPagesUpTo(Len(pages))

C4_Witness ==
    /\ pdf_pc = "returned"
    /\ Len(pages) = 2
    /\ PagesOf(release.teams) = <<1>>
    /\ ~Contains(pages[1].text, SENIOR_ROSTER)
    /\ parsed = <<1>>

\* extraction, parsing or validation fails on page i
FailsOn(i) ==
    \/ pages[i].outcome = "extract_text raises"
    \/ /\ HasSeniorRoster(i)
       /\ pages[i].outcome \in {"parse raises", "serialize raises"}

\* C5: no partial releases: when extraction, parsing or validation fails on a
\* page that contains "SENIOR ROSTER", from_pdf raises and returns no release,
\* however many earlier pages gave a Team.
C5_NoPartialRelease ==
    /\ \A i \in 1..idx : ~FailsOn(i)
    /\ pdf_pc = "returned" => \A i \in DOMAIN pages : ~FailsOn(i)
    /\ pdf_pc # "returned" => release = None
    /\ (pdf_pc = "loop" /\ idx = Len(pages)) => ENABLED from_pdf_return

C5_Witness ==
    /\ pdf_pc = "raised"
    /\ idx < Len(pages)
    /\ HasSeniorRoster(idx + 1)
    /\ FailsOn(idx + 1)
    /\ Len(teams) >= 1
    /\ release = None

(***************************************************************************)
(* enum.py                                                                 *)
(***************************************************************************)
EN_DASH == "EN_DASH"

\* a variant that writes a hyphen for an en-dash, keeps hyphens, drops spaces
_process_value_keeping_hyphens(value) ==
    SelectSeq([i \in 1..Len(value) |->
                  IF value[i] = EN_DASH THEN "-" ELSE LowerChar(value[i])],
              LAMBDA c : c # " ")

\* StrEnumCaseInsensitive._process_value: lower, then drop en-dash, hyphen, \s
_process_value(value) ==
    SelectSeq(Lower(value), LAMBDA c : c \notin ({EN_DASH, "-"} \cup Whitespace))

RosterSlot ==
    <<<<"S","e","n","i","o","r"," ","R","o","s","t","e","r">>, <<"S","u","p","p","l","e","m","e","n","t","a","l"," ","R","o","s","t","e","r">>, <<"S","u","p","p","l","e","m","e","n","t","a","l"," ","S","p","o","t"," ","3","1">>,
      <<"O","f","f","-","R","o","s","t","e","r"," ","(","U","n","a","v","a","i","l","a","b","l","e",")">>>>

YOUNG_DP == <<"Y","o","u","n","g"," ","D","e","s","i","g","n","a","t","e","d"," ","P","l","a","y","e","r">>
DP == <<"D","e","s","i","g","n","a","t","e","d"," ","P","l","a","y","e","r">>

RosterDesignation ==
    <<YOUNG_DP, <<"T","A","M"," ","P","l","a","y","e","r">>, DP, <<"U","2","2"," ","I","n","i","t","i","a","t","i","v","e">>, <<"H","o","m","e","g","r","o","w","n"," ","P","l","a","y","e","r">>,
      <<"G","e","n","e","r","a","t","i","o","n"," ","a","d","i","d","a","s">>, <<"P","r","o","f","e","s","s","i","o","n","a","l"," ","P","l","a","y","e","r"," ","D","e","v","e","l","o","p","m","e","n","t"," ","R","o","l","e">>,
      <<"S","p","e","c","i","a","l"," ","D","i","s","c","o","v","e","r","y"," ","P","l","a","y","e","r">>>>

OFF_BUDGET == <<"O","f","f","-","B","u","d","g","e","t">>
LOAN_PLAYER == <<"L","o","a","n"," ","P","l","a","y","e","r">>

CurrentStatus ==
    <<<<"U","n","a","v","a","i","l","a","b","l","e"," ","-"," ","O","n"," ","L","o","a","n">>, <<"U","n","a","v","a","i","l","a","b","l","e"," ","-"," ","S","E","I">>, <<"U","n","a","v","a","i","l","a","b","l","e"," ","-"," ","P","1","/","I","T","C">>,
      <<"U","n","a","v","a","i","l","a","b","l","e"," ","-"," ","O","t","h","e","r">>, <<"U","n","a","v","a","i","l","a","b","l","e">>, OFF_BUDGET, LOAN_PLAYER,
      <<"U","n","a","v","a","i","l","a","b","l","e"," ","-"," ","I","n","j","u","r","e","d"," ","L","i","s","t">>>>

RosterConstructionModel ==
    <<<<"D","e","s","i","g","n","a","t","e","d"," ","P","l","a","y","e","r"," ","M","o","d","e","l">>, <<"U","2","2"," ","I","n","i","t","i","a","t","i","v","e"," ","P","l","a","y","e","r"," ","M","o","d","e","l">>>>

\* cls(value): the member with that value, else the first member _missing_
\* finds, else NoStr for the ValueError
EnumLookup(cls, value) ==
    IF \E i \in DOMAIN cls : cls[i] = value THEN value
    ELSE LET lower_value == _process_value(value)
             found == {i \in DOMAIN cls : _process_value(cls[i]) = lower_value}
         IN  IF found = {} THEN NoStr
             ELSE cls[CHOOSE i \in found : \A j \in found : i <= j]

(***************************************************************************)
(* models.py: Player, Team and RosterProfile.  A bool | None field holds   *)
(* "True", "False" or "None"; an int | None value is <<>> or <<n>>.        *)
(***************************************************************************)
\* `if value:` for a str | None
Truthy(value) == value # NoStr /\ value # <<>>

\* a variant that gives None for a value that is no member
ValidateEnumOrNone(cls, value) ==
    IF Truthy(value) THEN EnumLookup(cls, value) ELSE NoStr

\* Player.validate_roster_designation, Player.validate_current_status and
\* Team.validate_roster_construction_model
ValidateEnum(cls, value) ==
    LET member == EnumLookup(cls, value)
    IN  IF Truthy(value)
        THEN IF member # NoStr THEN member ELSE value
        ELSE NoStr

\* the logger.warning of such a validator
EnumWarning(cls, value, message) ==
    IF Truthy(value) /\ EnumLookup(cls, value) = NoStr THEN <<message>> ELSE <<>>

\* Annotated[str, StringConstraints(strip_whitespace=True)] | None
Stripped(value) == IF value = NoStr THEN NoStr ELSE Strip(value)

\* Player(...) in _get_players: raised when roster_slot is no RosterSlot
Player(row, title, permanent_transfer_option) ==
    [raised |-> EnumLookup(RosterSlot, title) = NoStr,
     warnings |->
        EnumWarning(RosterDesignation, row.roster_designation,
                    "Unrecognized roster designation")
        \o EnumWarning(CurrentStatus, row.current_status,
                       "Unrecognized current status"),
     player |->
        [id_ |-> NoStr,
         name |-> Strip(row.player_name),
         roster_slot |-> EnumLookup(RosterSlot, title),
         roster_designation |-> ValidateEnum(RosterDesignation, row.roster_designation),
         current_status |-> ValidateEnum(CurrentStatus, row.current_status),
         contract_through |-> Stripped(row.contract_through),
         option_years |-> Stripped(row.option_years),
         permanent_transfer_option |-> permanent_transfer_option,
         international_slot |-> FALSE,
         convertible_with_tam |-> "None",
         unavailable |-> FALSE,
         canadian_international_slot_exemption |-> "None"]]

\* re.search(r"\d+", title): <<>> or <<int(match.group(0))>>
FirstInteger(title) ==
    IF \E i \in DOMAIN title : IsDigit(title[i])
    THEN LET start == CHOOSE i \in DOMAIN title :
                        IsDigit(title[i]) /\ \A j \in 1..(i - 1) : ~IsDigit(title[j])
             end == CHOOSE j \in start..Len(title) :
                        /\ \A k \in start..j : IsDigit(title[k])
                        /\ (j = Len(title) \/ ~IsDigit(title[j + 1]))
         IN  <<ToInt(SubSeq(title, start, end))>>
    ELSE <<>>

INTERNATIONAL == <<"i","n","t","e","r","n","a","t","i","o","n","a","l">>
DESIGNATED == <<"d","e","s","i","g","n","a","t","e","d">>
UNAVAILABLE == <<"u","n","a","v","a","i","l","a","b","l","e">>

\* table.title.lower().startswith(prefix)
TitleStartsWith(table, prefix) == StartsWith(Lower(table.title), prefix)

\* RosterProfile._get_international_slots
RECURSIVE _get_international_slots(_)
_get_international_slots(small_tables) ==
    IF small_tables = <<>> THEN <<>>
    ELSE LET table == Head(small_tables)
         IN  IF /\ TitleStartsWith(table, INTERNATIONAL)
                /\ FirstInteger(table.title) # <<>>
             THEN FirstInteger(table.title)
             ELSE _get_international_slots(Tail(small_tables))

\* a variant that asks for the whole name: str(row.player_name).lower() == player.name.lower()
RowEquals(row, player) ==
    Lower(Str(row.player_name)) = Lower(player.name)

\* str(row.player_name).lower().startswith(player.name.lower())
RowMatches(row, player) ==
    StartsWith(Lower(Str(row.player_name)), Lower(player.name))

Built(player) == [raised |-> FALSE, player |-> player]
TypeError(player) == [raised |-> TRUE, player |-> player]

\* a variant that sets the exemption to False only for a player some row of
\* the table matches
RECURSIVE _enrich_from_international_slots_of_listed(_, _)
_enrich_from_international_slots_of_listed(small_tables, player) ==
    IF small_tables = <<>> THEN Built(player)
    ELSE LET table == Head(small_tables)
             rows == table.rows
             defaulted ==
                IF \E i \in DOMAIN rows : Contains(Str(rows[i].player_name), <<"+">>)
                THEN [player EXCEPT !.canadian_international_slot_exemption = "False"]
                ELSE player
             matching == {i \in DOMAIN rows : RowMatches(rows[i], player)}
             first == CHOOSE i \in matching : \A j \in matching : i <= j
             slotted == [defaulted EXCEPT !.international_slot = TRUE]
         IN  IF ~TitleStartsWith(table, INTERNATIONAL)
             THEN _enrich_from_international_slots_of_listed(Tail(small_tables), player)
             ELSE IF matching = {}
             THEN _enrich_from_international_slots_of_listed(Tail(small_tables), player)
             ELSE IF rows[first].player_name = NoStr
             THEN TypeError(slotted)
             ELSE IF Contains(rows[first].player_name, <<"+">>)
             THEN _enrich_from_international_slots_of_listed(Tail(small_tables),
                    [slotted EXCEPT !.canadian_international_slot_exemption = "True"])
             ELSE _enrich_from_international_slots_of_listed(Tail(small_tables), slotted)

\* RosterProfile._enrich_from_international_slots: in each international
\* table the first matching row decides and ends the scan; `"+" in None` raises
RECURSIVE _enrich_from_international_slots(_, _)
_enrich_from_international_slots(small_tables, player) ==
    IF small_tables = <<>> THEN Built(player)
    ELSE LET table == Head(small_tables)
             rows == table.rows
             defaulted ==
                IF \E i \in DOMAIN rows : Contains(Str(rows[i].player_name), <<"+">>)
                THEN [player EXCEPT !.canadian_international_slot_exemption = "False"]
                ELSE player
             matching == {i \in DOMAIN rows : RowMatches(rows[i], player)}
             first == CHOOSE i \in matching : \A j \in matching : i <= j
             slotted == [defaulted EXCEPT !.international_slot = TRUE]
         IN  IF ~TitleStartsWith(table, INTERNATIONAL)
             THEN _enrich_from_international_slots(Tail(small_tables), player)
             ELSE IF matching = {}
             THEN _enrich_from_international_slots(Tail(small_tables), defaulted)
             ELSE IF rows[first].player_name = NoStr
             THEN TypeError(slotted)
             ELSE IF Contains(rows[first].player_name, <<"+">>)
             THEN _enrich_from_international_slots(Tail(small_tables),
                    [slotted EXCEPT !.canadian_international_slot_exemption = "True"])
             ELSE _enrich_from_international_slots(Tail(small_tables), slotted)

\* a variant that also takes a Young Designated Player
IsAnyDesignatedPlayer(player) == player.roster_designation \in {DP, YOUNG_DP}

\* the test `player.roster_designation == RosterDesignation.DP`
IsDesignatedPlayer(player) == player.roster_designation = DP

\* RosterProfile._enrich_from_designated_players: every row of every
\* designated table is looked at; `"^" in None` raises on a matching row
_enrich_from_designated_players(small_tables, player) ==
    LET designated == {t \in DOMAIN small_tables :
                         TitleStartsWith(small_tables[t], DESIGNATED)}
        matching == UNION {{small_tables[t].rows[r].player_name :
                              r \in {q \in DOMAIN small_tables[t].rows :
                                        RowMatches(small_tables[t].rows[q], player)}} :
                           t \in designated}
    IN  IF ~IsDesignatedPlayer(player) THEN Built(player)
        ELSE IF NoStr \in matching
        THEN TypeError([player EXCEPT !.convertible_with_tam = "True"])
        ELSE IF \E name \in matching : Contains(name, <<"^">>)
        THEN Built([player EXCEPT !.convertible_with_tam = "False"])
        ELSE Built([player EXCEPT !.convertible_with_tam = "True"])

\* a variant that flips the flag on a match in place of setting it
_enrich_from_unavailable_players_flipping(small_tables, player) ==
    IF \E t \in DOMAIN small_tables :
          /\ TitleStartsWith(small_tables[t], UNAVAILABLE)
          /\ \E r \in DOMAIN small_tables[t].rows :
                RowMatches(small_tables[t].rows[r], player)
    THEN Built([player EXCEPT !.unavailable = ~@])
    ELSE Built(player)

\* RosterProfile._enrich_from_unavailable_players
_enrich_from_unavailable_players(small_tables, player) ==
    IF \E t \in DOMAIN small_tables :
          /\ TitleStartsWith(small_tables[t], UNAVAILABLE)
          /\ \E r \in DOMAIN small_tables[t].rows :
                RowMatches(small_tables[t].rows[r], player)
    THEN Built([player EXCEPT !.unavailable = TRUE])
    ELSE Built(player)

\* a variant that leaves permanent_transfer_option as _get_players set it
_enrich_player_retaining(small_tables, player) ==
    LET international == _enrich_from_international_slots(small_tables, player)
        designated == _enrich_from_designated_players(small_tables, international.player)
        unavailable == _enrich_from_unavailable_players(small_tables, designated.player)
    IN  IF international.raised THEN international
        ELSE IF designated.raised THEN designated
        ELSE unavailable

\* RosterProfile._enrich_player
_enrich_player(small_tables, player) ==
    LET international == _enrich_from_international_slots(small_tables, player)
        designated == _enrich_from_designated_players(small_tables, international.player)
        unavailable == _enrich_from_unavailable_players(small_tables, designated.player)
    IN  IF international.raised THEN international
        ELSE IF designated.raised THEN designated
        ELSE Built([unavailable.player EXCEPT !.permanent_transfer_option =
                      IF unavailable.player.current_status = LOAN_PLAYER
                      THEN @ ELSE "None"])

\* the rows of the large tables in the order _get_players visits them
RECURSIVE TitledRows(_)
TitledRows(large_tables) ==
    IF large_tables = <<>> THEN <<>>
    ELSE [r \in DOMAIN Head(large_tables).rows |->
            [title |-> Head(large_tables).title, row |-> Head(large_tables).rows[r]]]
         \o TitledRows(Tail(large_tables))

\* the loop of RosterProfile._get_players over those rows
RECURSIVE GetPlayersFrom(_, _, _, _)
GetPlayersFrom(small_tables, titled_rows, players_, warnings_) ==
    IF titled_rows = <<>>
    THEN [raised |-> FALSE, players |-> players_, warnings |-> warnings_]
    ELSE LET row == Head(titled_rows).row
             permanent_transfer_option ==
                IF StartsWith(Str(row.option_years), <<"P","T">>) THEN "True" ELSE "False"
             new == Player(row, Head(titled_rows).title, permanent_transfer_option)
             enriched == _enrich_player(small_tables, new.player)
         IN  IF new.raised
             THEN [raised |-> TRUE, players |-> players_,
                   warnings |-> warnings_ \o new.warnings]
             ELSE IF enriched.raised
             THEN [raised |-> TRUE, players |-> players_,
                   warnings |-> warnings_ \o new.warnings]
             ELSE GetPlayersFrom(small_tables, Tail(titled_rows),
                                 Append(players_, enriched.player),
                                 warnings_ \o new.warnings)

\* RosterProfile._get_players
_get_players(self) ==
    GetPlayersFrom(self.small_tables, TitledRows(self.large_tables), <<>>, <<>>)

\* Team(...) in to_team: international_slots is a required int
Team(name, roster_construction_model, players_, international_slots, gam_available) ==
    [raised |-> international_slots = <<>>,
     warnings |-> EnumWarning(RosterConstructionModel, roster_construction_model,
                              "Unrecognized roster construction model"),
     team |-> [id_ |-> NoStr,
               name |-> Strip(name),
               roster_construction_model |->
                    ValidateEnum(RosterConstructionModel, roster_construction_model),
               players |-> players_,
               international_slots |-> international_slots,
               gam_available |-> gam_available]]

(***************************************************************************)
(* to_team over a bounded family of roster profiles                        *)
(***************************************************************************)
\* the most tables and rows together in the small tables of a profile
MaxSmallTableSize == 3

SmallTableRow(player_name) == [player_name |-> player_name]

LargeTableRow(player_name, roster_designation, current_status, contract_through, option_years) ==
    [player_name |-> player_name, roster_designation |-> roster_designation,
     current_status |-> current_status, contract_through |-> contract_through,
     option_years |-> option_years]

SmallTableRows ==
    {SmallTableRow(n) : n \in {NoStr, <<"J","O"," ","L","I">>, <<"J","o"," ","+">>, <<"J","o"," ","^">>}}

SmallTableTitles ==
    {<<"I","n","t","e","r","n","a","t","i","o","n","a","l"," ","(","1","2","/","8",")">>, <<"I","N","T","E","R","N","A","T","I","O","N","A","L">>, <<"D","e","s","i","g","n","a","t","e","d"," ","P","l","a","y","e","r","s">>,
     <<"U","n","a","v","a","i","l","a","b","l","e"," ","P","l","a","y","e","r","s">>}

\* the small tables of w - 1 rows
SmallTablesOfSize(w) ==
    {[title |-> t, rows |-> r] : t \in SmallTableTitles,
                                 r \in [1..(w - 1) -> SmallTableRows]}

\* the lists of small tables with at most n tables and rows together
RECURSIVE SmallTableLists(_)
SmallTableLists(n) ==
    {<<>>} \cup UNION {{<<t>> \o rest : t \in SmallTablesOfSize(w),
                                         rest \in SmallTableLists(n - w)} : w \in 1..n}

Jo == LargeTableRow(<<"J","o">>, DP, NoStr, <<"2","0","2","5">>, NoStr)
JoLi == LargeTableRow(<<"J","o"," ","L","i">>, YOUNG_DP, <<"U","n","a","v","a","i","l","a","b","l","e">>, <<" ","2","0","2","6"," ">>, <<"2","0","2","7",","," ","2","0","2","8">>)
No == LargeTableRow(<<"N","o">>, NoStr, LOAN_PLAYER, <<"J","u","n","e"," ","2","0","2","6">>, <<"P","T"," ","2","0","2","6">>)
jo == LargeTableRow(<<" ","j","o"," ">>, <<"d","e","s","i","g","n","a","t","e","d"," ","p","l","a","y","e","r">>, <<"l","o","a","n"," ","p","l","a","y","e","r">>, NoStr, <<"2","0","2","6">>)
Li == LargeTableRow(<<"L","i">>, <<"F","r","a","n","c","h","i","s","e"," ","P","l","a","y","e","r">>, <<"R","e","t","i","r","e","d">>, NoStr, <<"P","T">>)

Bo == LargeTableRow(<<"B","o">>, <<>>, OFF_BUDGET, NoStr, <<"P","T"," ","2","0","2","6">>)
Lo == LargeTableRow(<<"L","o">>, NoStr, LOAN_PLAYER, NoStr, NoStr)

SENIOR == <<"S","e","n","i","o","r"," ","R","o","s","t","e","r">>

LargeTableLists ==
    {<<>>,
     <<[title |-> SENIOR, rows |-> <<Jo>>]>>,
     <<[title |-> <<"S","E","N","I","O","R"," ","R","O","S","T","E","R">>, rows |-> <<Jo, JoLi>>]>>,
     <<[title |-> SENIOR, rows |-> <<JoLi, No>>]>>,
     <<[title |-> <<"O","f","f","-","R","o","s","t","e","r"," ","(","U","n","a","v","a","i","l","a","b","l","e",")">>, rows |-> <<No>>]>>,
     <<[title |-> SENIOR, rows |-> <<jo>>],
       [title |-> <<"s","u","p","p","l","e","m","e","n","t","a","l"," ","r","o","s","t","e","r">>, rows |-> <<Li>>]>>,
     <<[title |-> <<"S","u","p","p","l","e","m","e","n","t","a","l"," ","S","p","o","t"," ","3","1">>, rows |-> <<Li, Jo>>]>>,
     <<[title |-> SENIOR, rows |-> <<No>>], [title |-> <<"B","e","n","c","h">>, rows |-> <<Jo>>]>>,
     <<[title |-> <<"B","e","n","c","h">>, rows |-> <<Li>>]>>,
     <<[title |-> SENIOR, rows |-> <<Bo, Lo, No>>]>>}

\* team_name, roster_construction_model and gam_available
Headers ==
    {[team_name |-> <<"T","o","r","o","n","t","o"," ","F","C"," ">>, roster_construction_model |-> <<"d","e","s","i","g","n","a","t","e","d"," ","p","l","a","y","e","r"," ","m","o","d","e","l">>,
      gam_available |-> <<2500000>>],
     [team_name |-> <<"C","F"," ","M","o","n","t","r","e","a","l">>, roster_construction_model |-> <<"H","y","b","r","i","d"," ","M","o","d","e","l">>,
      gam_available |-> <<>>]}

RosterProfile(header, small_tables, large_tables) ==
    [team_name |-> header.team_name,
     roster_construction_model |-> header.roster_construction_model,
     gam_available |-> header.gam_available,
     small_tables |-> small_tables,
     large_tables |-> large_tables]

NoHeader(team_name) ==
    [team_name |-> team_name, roster_construction_model |-> NoStr, gam_available |-> <<>>]

JANE_DOE == <<"J","a","n","e"," ","D","o","e">>
ALPHONSO_DAVIES == <<"A","l","p","h","o","n","s","o"," ","D","a","v","i","e","s">>
OTHER_GUY == <<"O","t","h","e","r"," ","G","u","y">>
LUIS_SUAREZ == <<"L","u","i","s"," ","S","u","a","r","e","z">>
INTERNATIONAL_SLOTS_7 == <<"I","n","t","e","r","n","a","t","i","o","n","a","l"," ","S","l","o","t","s"," ","(","7",")">>

JaneDoeProfile ==
    RosterProfile(NoHeader(<<"L","A"," ","G","a","l","a","x","y">>),
        <<[title |-> <<"D","e","s","i","g","n","a","t","e","d"," ","P","l","a","y","e","r","s">>, rows |-> <<SmallTableRow(<<"J","a","n","e"," ","D","o","e"," ","^">>)>>]>>,
        <<[title |-> SENIOR,
           rows |-> <<LargeTableRow(JANE_DOE, DP, NoStr, NoStr, NoStr)>>]>>)

AlphonsoDaviesProfile ==
    RosterProfile(NoHeader(<<"V","a","n","c","o","u","v","e","r"," ","W","h","i","t","e","c","a","p","s"," ","F","C">>),
        <<[title |-> INTERNATIONAL_SLOTS_7,
           rows |-> <<SmallTableRow(<<"A","l","p","h","o","n","s","o"," ","D","a","v","i","e","s"," ","+">>), SmallTableRow(OTHER_GUY)>>]>>,
        <<[title |-> SENIOR,
           rows |-> <<LargeTableRow(ALPHONSO_DAVIES, NoStr, NoStr, NoStr, NoStr),
                      LargeTableRow(OTHER_GUY, NoStr, NoStr, NoStr, NoStr)>>]>>)

InterMiamiProfile ==
    RosterProfile(NoHeader(<<"I","n","t","e","r"," ","M","i","a","m","i"," ","C","F">>),
        <<[title |-> <<"U","n","a","v","a","i","l","a","b","l","e"," ","P","l","a","y","e","r","s">>, rows |-> <<SmallTableRow(LUIS_SUAREZ)>>]>>,
        <<[title |-> SENIOR,
           rows |-> <<LargeTableRow(LUIS_SUAREZ, NoStr, <<"U","n","a","v","a","i","l","a","b","l","e"," ","-"," ","I","n","j","u","r","e","d"," ","L","i","s","t">>,
                                    NoStr, NoStr)>>]>>)

\* a record whose team_name is one space
BlankNameProfile ==
    RosterProfile(NoHeader(<<" ">>),
        <<[title |-> INTERNATIONAL_SLOTS_7, rows |-> <<>>]>>,
        <<[title |-> SENIOR, rows |-> <<Jo>>]>>)

RosterProfiles ==
    {RosterProfile(h, s, l) : h \in Headers,
                              s \in SmallTableLists(MaxSmallTableSize),
                              l \in LargeTableLists}
    \cup {JaneDoeProfile, AlphonsoDaviesProfile, InterMiamiProfile, BlankNameProfile}

\* RosterProfile.to_team
to_team ==
    /\ team_pc = "called"
    /\ \E international_slots \in {_get_international_slots(profile.small_tables)},
          got \in {_get_players(profile)} :
         \E built \in {Team(profile.team_name, profile.roster_construction_model,
                            got.players, international_slots, profile.gam_available)} :
           IF got.raised
           THEN /\ team_pc' = "raised in _get_players"
                /\ players' = <<>>
                /\ warnings' = got.warnings
                /\ team' = None
           ELSE /\ team_pc' = IF built.raised THEN "raised in Team" ELSE "returned"
                /\ players' = got.players
                /\ warnings' = got.warnings \o built.warnings
                /\ team' = IF built.raised THEN None ELSE built.team
    /\ UNCHANGED <<profile, pageVars, pdfVars, fnVars>>

InitTeam ==
    /\ NoPage
    /\ NoPdf
    /\ NoFn
    /\ profile \in RosterProfiles
    /\ players = <<>>
    /\ team = None
    /\ team_pc = "called"
    /\ warnings = <<>>

NextTeam == to_team

SpecTeam == InitTeam /\ [][NextTeam]_vars

(***************************************************************************)
(* Properties of to_team                                                   *)
(***************************************************************************)
\* to_team got past _get_players: `players` is the list it built
PlayersBuilt == team_pc \in {"returned", "raised in Team"}

\* a named row whose name starts, case-insensitively, with the player's name
NamesPlayer(row, player) ==
    /\ row.player_name # NoStr
    /\ StartsWith(Lower(row.player_name), Lower(player.name))

\* the rows of the small tables whose title starts with the prefix
RowsOf(prefix) ==
    UNION {{profile.small_tables[t].rows[r] : r \in DOMAIN profile.small_tables[t].rows} :
           t \in {u \in DOMAIN profile.small_tables :
                    StartsWith(Lower(profile.small_tables[u].title), prefix)}}

\* the digits-bearing titles of the international small tables, in order
SlotTitles ==
    SelectSeq([t \in DOMAIN profile.small_tables |-> profile.small_tables[t].title],
              LAMBDA title : /\ StartsWith(Lower(title), INTERNATIONAL)
                             /\ \E i \in DOMAIN title : IsDigit(title[i]))

\* C6: once the players are built, to_team returns a Team whose
\* international_slots is the first integer of the first international title
\* that has one, and null when no international title has a digit
C6_TeamWithInternationalSlots ==
    PlayersBuilt =>
        /\ team_pc = "returned"
        /\ team # None
        /\ team.international_slots =
              IF SlotTitles = <<>> THEN <<>> ELSE FirstInteger(Head(SlotTitles))

\* C7: every built player has international_slot exactly when a row of an
\* international table names the player, and has the Canadian exemption
\* whenever such a row contains "+"
C7_InternationalEnrichment ==
    \A i \in DOMAIN players :
        /\ players[i].international_slot
              <=> \E row \in RowsOf(INTERNATIONAL) : NamesPlayer(row, players[i])
        /\ (\E row \in RowsOf(INTERNATIONAL) :
                NamesPlayer(row, players[i]) /\ Contains(row.player_name, <<"+">>))
              => players[i].canadian_international_slot_exemption = "True"

\* the player of that name among the built players has these two flags
HasFlags(name, international_slot, exemption) ==
    \E i \in DOMAIN players :
        /\ players[i].name = name
        /\ players[i].international_slot = international_slot
        /\ players[i].canadian_international_slot_exemption = exemption

\* C8 as stated: for the "International Slots (7)" roster the Team has 7
\* slots, Alphonso Davies has the slot and the exemption, and Other Guy has
\* neither
C8_OtherGuyWithoutSlot ==
    (profile = AlphonsoDaviesProfile /\ team_pc # "called") =>
        /\ team # None
        /\ team.international_slots = <<7>>
        /\ HasFlags(ALPHONSO_DAVIES, TRUE, "True")
        /\ HasFlags(OTHER_GUY, FALSE, "False")

\* C8 amended: for the "International Slots (7)" roster the Team has 7
\* slots, Alphonso Davies has the slot and the exemption, and Other Guy, who
\* is listed in the table too, has the slot without the exemption
C8_OtherGuyWithSlot ==
    (profile = AlphonsoDaviesProfile /\ team_pc # "called") =>
        /\ team # None
        /\ team.international_slots = <<7>>
        /\ HasFlags(ALPHONSO_DAVIES, TRUE, "True")
        /\ HasFlags(OTHER_GUY, TRUE, "False")

C8_Witness ==
    /\ profile = AlphonsoDaviesProfile
    /\ team_pc = "returned"
    /\ Len(team.players) = 2

\* C9: every built player has convertible_with_tam null exactly when the
\* roster designation is not Designated Player; a Designated Player has
\* false when a row of a designated table names the player and contains "^",
\* and true otherwise; a Young Designated Player has null
C9_DesignatedEnrichment ==
    \A i \in DOMAIN players :
        /\ players[i].convertible_with_tam = "None"
              <=> players[i].roster_designation # DP
        /\ players[i].roster_designation = DP =>
              players[i].convertible_with_tam =
                 IF \E row \in RowsOf(DESIGNATED) :
                       NamesPlayer(row, players[i]) /\ Contains(row.player_name, <<"^">>)
                 THEN "False" ELSE "True"
        /\ players[i].roster_designation = YOUNG_DP =>
              players[i].convertible_with_tam = "None"

C9_Witness ==
    /\ team_pc = "returned"
    /\ \E i \in DOMAIN players :
          /\ players[i].roster_designation = DP
          /\ players[i].convertible_with_tam = "False"
          /\ \E row \in RowsOf(DESIGNATED) : NamesPlayer(row, players[i])
    /\ \E i \in DOMAIN players :
          /\ players[i].roster_designation = YOUNG_DP
          /\ players[i].convertible_with_tam = "None"

\* C10: every built player has unavailable exactly when a row of an
\* unavailable table names the player
C10_UnavailableEnrichment ==
    \A i \in DOMAIN players :
        players[i].unavailable
            <=> \E row \in RowsOf(UNAVAILABLE) : NamesPlayer(row, players[i])

\* the large-table rows in the order the players are built from them
LargeRows == [i \in DOMAIN TitledRows(profile.large_tables) |->
                 TitledRows(profile.large_tables)[i].row]

\* the row's option_years is there and starts with "PT"
OptionYearsStartWithPT(row) ==
    row.option_years # NoStr /\ StartsWith(row.option_years, <<"P", "T">>)

\* C11: in every Team to_team returns, a player's permanent_transfer_option
\* is non-null exactly when current_status is Loan Player, and then tells
\* whether the row's option_years starts with "PT" (false when missing)
C11_LoanHygiene ==
    team_pc = "returned" =>
        /\ Len(team.players) = Len(LargeRows)
        /\ \A i \in DOMAIN team.players :
              /\ team.players[i].permanent_transfer_option # "None"
                    <=> team.players[i].current_status = LOAN_PLAYER
              /\ team.players[i].current_status = LOAN_PLAYER =>
                    team.players[i].permanent_transfer_option =
                       IF OptionYearsStartWithPT(LargeRows[i]) THEN "True" ELSE "False"

C11_Witness ==
    /\ team_pc = "returned"
    /\ \E i \in DOMAIN team.players :
          /\ team.players[i].current_status = LOAN_PLAYER
          /\ LargeRows[i].option_years = <<"P", "T", " ", "2", "0", "2", "6">>
          /\ team.players[i].permanent_transfer_option = "True"
    /\ \E i \in DOMAIN team.players :
          /\ team.players[i].current_status = OFF_BUDGET
          /\ LargeRows[i].option_years = <<"P", "T", " ", "2", "0", "2", "6">>
          /\ team.players[i].permanent_transfer_option = "None"
    /\ \E i \in DOMAIN team.players :
          /\ team.players[i].current_status = LOAN_PLAYER
          /\ LargeRows[i].option_years = NoStr
          /\ team.players[i].permanent_transfer_option = "False"

(***************************************************************************)
(* _enrich_player on its own: applied to a new Player, then to the Player  *)
(* it returned                                                             *)
(***************************************************************************)
LargeTableRows == {Jo, JoLi, No, jo, Li, Bo, Lo}

\* the Player _get_players makes of a Senior Roster row, before enrichment
NewPlayer(row) ==
    Player(row, SENIOR,
           IF StartsWith(Str(row.option_years), <<"P","T">>) THEN "True" ELSE "False").player

EnrichCalls ==
    {[fn |-> "_enrich_player", small_tables |-> s, player |-> NewPlayer(row), times |-> 0] :
        s \in SmallTableLists(MaxSmallTableSize), row \in LargeTableRows}

\* self._enrich_player(player), on the Player the call before returned
enrich_player ==
    /\ fn_call # None
    /\ fn_call.fn = "_enrich_player"
    /\ fn_call.times < 2
    /\ fn_call.times = 1 => ~fn_result.raised
    /\ fn_result' = _enrich_player(fn_call.small_tables,
                                   IF fn_call.times = 0 THEN fn_call.player
                                   ELSE fn_result.player)
    /\ fn_call' = [fn_call EXCEPT !.times = @ + 1]
    /\ UNCHANGED <<pageVars, pdfVars, teamVars>>

InitEnrich ==
    /\ NoPage
    /\ NoPdf
    /\ NoTeam
    /\ fn_call \in EnrichCalls
    /\ fn_result = None

NextEnrich == enrich_player

SpecEnrich == InitEnrich /\ [][NextEnrich]_vars

\* the second application is under way in this step
SecondEnrichment == fn_call.times = 1 /\ fn_call'.times = 2

\* C12: enriching an already enriched player again raises nothing and
\* leaves international_slot, canadian_international_slot_exemption,
\* convertible_with_tam, unavailable and permanent_transfer_option as they were
C12_EnrichmentIdempotent ==
    [][SecondEnrichment =>
          /\ ~fn_result'.raised
          /\ fn_result'.player.international_slot = fn_result.player.international_slot
          /\ fn_result'.player.canadian_international_slot_exemption
                = fn_result.player.canadian_international_slot_exemption
          /\ fn_result'.player.convertible_with_tam = fn_result.player.convertible_with_tam
          /\ fn_result'.player.unavailable = fn_result.player.unavailable
          /\ fn_result'.player.permanent_transfer_option
                = fn_result.player.permanent_transfer_option]_vars

C12_Witness ==
    /\ fn_call # None
    /\ fn_call.fn = "_enrich_player"
    /\ fn_call.times = 2
    /\ fn_result.player.international_slot
    /\ fn_result.player.canadian_international_slot_exemption = "True"
    /\ fn_result.player.convertible_with_tam = "True"

(***************************************************************************)
(* Enumeration lookup on its own: cls(value) for the four enumerations     *)
(***************************************************************************)
Enumerations ==
    [RosterSlot |-> RosterSlot, RosterDesignation |-> RosterDesignation,
     CurrentStatus |-> CurrentStatus, RosterConstructionModel |-> RosterConstructionModel]

Members(cls) == {cls[i] : i \in DOMAIN cls}

\* the text with every b written for a
Replaced(text, a, b) == [i \in 1..Len(text) |-> IF text[i] = a THEN b ELSE text[i]]

\* the text without the character a
Without(text, a) == SelectSeq(text, LAMBDA c : c # a)

\* spellings of a member's text, and strings that are no member
Spellings(m) ==
    {m, Lower(m), Replaced(m, "-", EN_DASH), Replaced(m, " ", "\t"),
     Without(m, "-"), Without(m, " "), Without(Without(m, "-"), " "), m \o <<" ">>}

LookupValues ==
    UNION {UNION {Spellings(m) : m \in Members(Enumerations[e])} : e \in DOMAIN Enumerations}
    \cup {<<>>, <<" ">>, <<"B","e","n","c","h">>, <<"D","P">>, <<"L","o","a","n">>, <<"D","e","s","i","g","n","a","t","e","d"," ","P","l","a","y","e","r","s">>}

LookupCalls ==
    {[fn |-> "lookup", cls |-> e, value |-> v] : e \in DOMAIN Enumerations, v \in LookupValues}

\* cls(value): the member, or NoStr for the ValueError
lookup ==
    /\ fn_call # None
    /\ fn_call.fn = "lookup"
    /\ fn_result = None
    /\ fn_result' = [member |-> EnumLookup(Enumerations[fn_call.cls], fn_call.value)]
    /\ UNCHANGED <<fn_call, pageVars, pdfVars, teamVars>>

InitEnum ==
    /\ NoPage
    /\ NoPdf
    /\ NoTeam
    /\ fn_call \in LookupCalls
    /\ fn_result = None

NextEnum == lookup

SpecEnum == InitEnum /\ [][NextEnum]_vars

\* the lookup of this state has been made
LookedUp == fn_call # None /\ fn_call.fn = "lookup" /\ fn_result # None

\* lower case, an en-dash read as a hyphen, spaces ignored
HyphenKey(text) == Without(Replaced(Lower(text), EN_DASH, "-"), " ")

\* lower case, with every en-dash, hyphen and whitespace character deleted
BareKey(text) ==
    SelectSeq(Lower(text), LAMBDA c : c \notin {EN_DASH, "-", " ", "\t", "\n"})

\* the lookup gave the one member with the value's key, or failed when no
\* member has that key
GivesMemberByKey(Key(_)) ==
    LET cls == Enumerations[fn_call.cls]
        same == {m \in Members(cls) : Key(m) = Key(fn_call.value)}
    IN  /\ \A e \in DOMAIN Enumerations :
              \A m, n \in Members(Enumerations[e]) : Key(m) = Key(n) => m = n
        /\ fn_result.member = IF same = {} THEN NoStr ELSE CHOOSE m \in same : TRUE

Recognized(cls, raw) == \E m \in Members(cls) : BareKey(m) = BareKey(raw)

\* the field holds null for a missing or empty value, the member for a
\* recognized one, the value itself for any other
Stored(cls, raw, field) ==
    IF raw \in {NoStr, <<>>} THEN field = NoStr
    ELSE IF Recognized(cls, raw) THEN field \in Members(cls) /\ BareKey(field) = BareKey(raw)
    ELSE field = raw

\* the warning due for the value
WarningFor(cls, raw, message) ==
    IF raw \notin {NoStr, <<>>} /\ ~Recognized(cls, raw) THEN <<message>> ELSE <<>>

\* the warnings due for the rows from the i-th on
RECURSIVE RowWarnings(_)
RowWarnings(i) ==
    IF i > Len(LargeRows) THEN <<>>
    ELSE WarningFor(RosterDesignation, LargeRows[i].roster_designation,
                    "Unrecognized roster designation")
         \o WarningFor(CurrentStatus, LargeRows[i].current_status,
                       "Unrecognized current status")
         \o RowWarnings(i + 1)

\* nothing but the three fields could stop this profile from giving a Team:
\* there is a number of international slots, every large table is titled
\* with a roster slot, and no small-table row lacks its player_name
TeamDue ==
    /\ SlotTitles # <<>>
    /\ \A t \in DOMAIN profile.large_tables :
          Recognized(RosterSlot, profile.large_tables[t].title)
    /\ \A t \in DOMAIN profile.small_tables :
          \A r \in DOMAIN profile.small_tables[t].rows :
              profile.small_tables[t].rows[r].player_name # NoStr

\* C14: an unrecognized roster_designation, current_status or
\* roster_construction_model stops no Team from being returned, is stored as
\* the string it was and is warned about; a recognized value is stored as
\* the member and an empty or missing one as null
C14_UnrecognizedValuesKept ==
    /\ (team_pc # "called" /\ TeamDue) => team_pc = "returned"
    /\ PlayersBuilt =>
          /\ Len(players) = Len(LargeRows)
          /\ \A i \in DOMAIN players :
                /\ Stored(RosterDesignation, LargeRows[i].roster_designation,
                          players[i].roster_designation)
                /\ Stored(CurrentStatus, LargeRows[i].current_status,
                          players[i].current_status)
          /\ warnings = RowWarnings(1)
                        \o WarningFor(RosterConstructionModel,
                                      profile.roster_construction_model,
                                      "Unrecognized roster construction model")
    /\ team_pc = "returned" =>
          Stored(RosterConstructionModel, profile.roster_construction_model,
                 team.roster_construction_model)

C14_Witness ==
    /\ team_pc = "returned"
    /\ \E i \in DOMAIN team.players :
          /\ team.players[i].roster_designation = Li.roster_designation
          /\ team.players[i].current_status = Li.current_status
    /\ \E i \in DOMAIN team.players :
          /\ LargeRows[i].roster_designation = jo.roster_designation
          /\ team.players[i].roster_designation = DP
    /\ team.roster_construction_model = <<"H", "y", "b", "r", "i", "d", " ", "M", "o", "d", "e", "l">>
    /\ warnings = <<"Unrecognized roster designation", "Unrecognized current status",
                    "Unrecognized roster construction model">>

\* the rows of the small table that match the player as the code matches
\* them, by position
MatchingRows(table, player) ==
    {r \in DOMAIN table.rows :
        StartsWith(Lower(Str(table.rows[r].player_name)), Lower(player.name))}

\* the small tables enrichment consults for the player
Consulted(player) ==
    {t \in DOMAIN profile.small_tables :
        \/ StartsWith(Lower(profile.small_tables[t].title), INTERNATIONAL)
        \/ StartsWith(Lower(profile.small_tables[t].title), UNAVAILABLE)
        \/ /\ StartsWith(Lower(profile.small_tables[t].title), DESIGNATED)
           /\ player.roster_designation = DP}

\* a warning that is none of the three about unrecognized values
OtherWarning ==
    \E k \in DOMAIN warnings :
        warnings[k] \notin {"Unrecognized roster designation",
                            "Unrecognized current status",
                            "Unrecognized roster construction model"}

\* C15: when no row or more than one row of a consulted small table matches
\* a built player, to_team logs a warning about it
C15_AmbiguityWarned ==
    (/\ PlayersBuilt
     /\ \E i \in DOMAIN players : \E t \in Consulted(players[i]) :
           Cardinality(MatchingRows(profile.small_tables[t], players[i])) # 1)
    => OtherWarning

\* C16: every Team to_team returns has a name that is not empty and players
\* whose roster_slot is a member of RosterSlot, and a profile with a large
\* table of rows titled otherwise returns no Team
C16_NamedTeamWithRosterSlots ==
    team_pc = "returned" =>
        /\ team.name # <<>>
        /\ \A i \in DOMAIN team.players : team.players[i].roster_slot \in Members(RosterSlot)
        /\ \A t \in DOMAIN profile.large_tables :
              profile.large_tables[t].rows # <<>> =>
                  Recognized(RosterSlot, profile.large_tables[t].title)

(***************************************************************************)
(* _postprocess_text on its own: applied to a text, then to the text it    *)
(* returned                                                                *)
(***************************************************************************)
\* the longest text handed to _postprocess_text
MaxTextLen == 8

TextCharacters == {"-", ATTRIBUTES_OPEN, ATTRIBUTES_CLOSE, END_OBJECT}

PostprocessCalls ==
    {[fn |-> "_postprocess_text", text |-> t, times |-> 0] :
        t \in UNION {[1..n -> TextCharacters] : n \in 0..MaxTextLen}}

\* cls._postprocess_text(text), on the text the call before returned
postprocess_text ==
    /\ fn_call # None
    /\ fn_call.fn = "_postprocess_text"
    /\ fn_call.times < 2
    /\ fn_result' = [text |-> _postprocess_text(IF fn_call.times = 0 THEN fn_call.text
                                                 ELSE fn_result.text)]
    /\ fn_call' = [fn_call EXCEPT !.times = @ + 1]
    /\ UNCHANGED <<pageVars, pdfVars, teamVars>>

InitPostprocess ==
    /\ NoPage
    /\ NoPdf
    /\ NoTeam
    /\ fn_call \in PostprocessCalls
    /\ fn_result = None

NextPostprocess == postprocess_text

SpecPostprocess == InitPostprocess /\ [][NextPostprocess]_vars

\* C17: applying _postprocess_text to the text it returned gives that text
C17_PostprocessIdempotent ==
    [][(fn_call.times = 1 /\ fn_call'.times = 2) => fn_result'.text = fn_result.text]_vars

\* C18: when from_pdf returns, every page it parsed carries the release_date
\* of the release, so that the date does not hang on which page came last
C18_OneReleaseDate ==
    pdf_pc = "returned" =>
        \A k \in DOMAIN parsed : pages[parsed[k]].release_date = release.release_date

(***************************************************************************)
(* C19: a font whose character table holds a delimiter glyph               *)
(***************************************************************************)
\* C19: no Font value exists for a font whose ToUnicode table maps a code to
\* one of the six delimiter glyphs: whenever the page holds a Font after a Tf
\* operation, used to show text or not, its character table passes
\* raise_overlapping_glyphs.
C19_NoFontWithDelimiterGlyph ==
    page._font # None => ~CharactersRaises(page._font)

(***************************************************************************)
(* Font.decode on its own: one font of the page, one byte string           *)
(***************************************************************************)
\* the longest byte string handed to Font.decode
MaxBytes == 3

\* the codes of a byte string; no font of the page has code 3
CharacterCodes == {1, 2, 3}

DecodeCalls ==
    {[fn |-> "decode", font |-> FontFromOperands(key, 10), byte_string |-> b] :
        key \in FontKeys,
        b \in UNION {[1..n -> CharacterCodes] : n \in 0..MaxBytes}}

\* font.decode(byte_string=byte_string)
decode ==
    /\ fn_call # None
    /\ fn_call.fn = "decode"
    /\ fn_result = None
    /\ fn_result' = Decode(fn_call.font, fn_call.byte_string)
    /\ UNCHANGED <<pageVars, pdfVars, teamVars, fn_call>>

InitDecode ==
    /\ NoPage
    /\ NoPdf
    /\ NoTeam
    /\ fn_call \in DecodeCalls
    /\ fn_result = None

NextDecode == decode

SpecDecode == InitDecode /\ [][NextDecode]_vars

\* C20: for every font whose character table passes raise_overlapping_glyphs
\* and every byte string, the text Font.decode returns contains none of the
\* six delimiter characters, glyphs of more than one character included.
C20_DecodedTextHasNoDelimiter ==
    (fn_result # None /\ fn_result.ok /\ ~CharactersRaises(fn_call.font))
        => \A i \in DOMAIN fn_result.content : fn_result.content[i] \notin DelimiterGlyph

(***************************************************************************)
(* Claims about Td, the accumulators, the font stack and the bounding box. *)
(***************************************************************************)
\* the first of the five rules of _move_text_position that applies, 0 if none
FirstRule(p, operands) ==
    LET tx == operands[1]
        ty == operands[2]
    IN  IF ty < 0 /\ Abs(tx + p._td_x_translation) < x_threshold THEN 1
        ELSE IF ty > 0 /\ Abs(ty + p._td_y_translation) < y_threshold THEN 2
        ELSE IF Abs(ty) >= y_threshold THEN 3
        ELSE IF tx < 0 /\ p._text_object.content # <<>> THEN 4
        ELSE IF tx > 0 /\ p._text_object.content # <<>> THEN 5
        ELSE 0

\* what the rule leaves: the delimiter appended (<<>> if none), the
\* accumulators, the text objects
RuleEffect(p, q, operands) ==
    LET tx == operands[1]
        ty == operands[2]
        rule == FirstRule(p, operands)
        appended(glyphs) ==
            /\ q._text_object = [p._text_object EXCEPT !.content = @ \o glyphs]
            /\ q.text_objects = p.text_objects
        accumulators(x, y) ==
            q._td_x_translation = x /\ q._td_y_translation = y
    IN  /\ q._x_displacement = 0
        /\ q._font = p._font
        /\ q._font_stack = p._font_stack
        /\ CASE rule = 1 -> /\ appended(<<RETURN>>)
                            /\ accumulators(0, p._td_y_translation + ty)
             [] rule = 2 -> /\ appended(IF tx < 0 THEN <<PRECEDES>> ELSE <<TAB>>)
                            /\ accumulators(0, 0)
             [] rule = 3 -> /\ q._text_object = TextObject
                            /\ q.text_objects = _end_text_object(p).text_objects
                            /\ accumulators(p._td_x_translation, p._td_y_translation)
             [] rule = 4 -> /\ appended(<<PRECEDES>>)
                            /\ accumulators(p._td_x_translation, p._td_y_translation)
             [] rule = 5 -> \/ /\ tx - p._x_displacement > x_threshold * p._font.size
                               /\ appended(<<TAB>>)
                               /\ accumulators(p._td_x_translation, p._td_y_translation)
                            \/ /\ ~(tx - p._x_displacement > x_threshold * p._font.size)
                               /\ appended(<<>>)
                               /\ accumulators(p._td_x_translation + tx, p._td_y_translation)
             [] OTHER    -> /\ appended(<<>>)
                            /\ accumulators(p._td_x_translation, p._td_y_translation)

\* C21: every Td [tx, ty], in every extractor state, applies exactly the
\* first applicable of the five rules (RETURN; PRECEDES or TAB on the way
\* back up; finalize; PRECEDES; TAB or accumulate) and completes with
\* x_displacement = 0 and at most one delimiter appended.
C21_TdRules ==
    [][\A operands \in TdOperands :
          Visit(_move_text_position(page, operands))
              => pc' = "running" /\ RuleEffect(page, page', operands)]_vars

\* a step that appends a finished TextObject to text_objects
Finalizes == Len(page'.text_objects) = Len(page.text_objects) + 1

\* C22: whenever a TextObject is finalized and a new partial TextObject
\* starts, _td_x_translation and _td_y_translation are both 0, so that the
\* accumulators sum the Td translations of the present text object only.
C22_AccumulatorsReset ==
    [][Finalizes => page'._td_x_translation = 0 /\ page'._td_y_translation = 0]_vars

\* q: the current font is pushed; the font and the partial TextObject stay
Pushed ==
    /\ page'._font_stack = Append(page._font_stack, page._font)
    /\ page'._font = page._font
    /\ page'._text_object = page._text_object
    /\ page'.text_objects = page.text_objects

\* Q: the partial TextObject, if it has content, is emitted with the font in
\* force before the pop; then the font pushed last becomes the current font
Popped ==
    /\ page._font_stack # <<>>
    /\ page'._font_stack = SubSeq(page._font_stack, 1, Len(page._font_stack) - 1)
    /\ page'._font = Last(page._font_stack)
    /\ page'._text_object = TextObject
    /\ IF page._text_object.content = <<>>
       THEN page'.text_objects = page.text_objects
       ELSE /\ Finalizes
            /\ Last(page'.text_objects).font = page._font
            /\ SubSeq(page'.text_objects, 1, Len(page.text_objects)) = page.text_objects

\* C23: q pushes the current font and changes neither it nor the partial
\* TextObject; Q finalizes the partial TextObject with the font in force and
\* then restores the font pushed by the matching q; no other step changes
\* the stack; Q on an empty stack raises and leaves the font as it was.
C23_FontStack ==
    [][/\ Visit(Returns(_save_graphics_state(page))) => Pushed
       /\ Visit(_restore_graphics_state(page)) =>
            IF page._font_stack = <<>>
            THEN pc' = "raised" /\ page'._font = page._font
            ELSE pc' = "running" /\ Popped
       /\ page'._font_stack # page._font_stack => Pushed \/ Popped]_vars

\* q with no font, Tf, a show, then Q: the object shown is emitted with the
\* font of the Tf and the font is None again
C23_Witness ==
    /\ pc = "running"
    /\ page._font_stack = <<>>
    /\ page._font = None
    /\ Len(page.text_objects) = 1
    /\ page.text_objects[1].font # None

\* the third row of the product of tm and cm, both taken as 3 x 3 matrices
\* with last column (0, 0, 1): the point the text-space origin is mapped to
TranslationRow(tm, cm) ==
    [x |-> tm[5] * cm[1] + tm[6] * cm[3] + cm[5],
     y |-> tm[5] * cm[2] + tm[6] * cm[4] + cm[6]]

\* a Tj or TJ step with the matrices m
Shows(m) ==
    \/ \E operands \in TjOperands : Visit(_show_text_string(page, operands, m.cm, m.tm))
    \/ \E operands \in TJOperands : Visit(_show_text_strings(page, operands, m.cm, m.tm))

\* a step that gives the partial TextObject its bounding box
SetsOrigin ==
    page._text_object.bounding_box = None /\ page'._text_object.bounding_box # None

\* C24: the partial TextObject gets its bounding box in a Tj/TJ step, the
\* first show, with x_min and y_min from the translation row of tm * cm of
\* that show, and as long as the partial TextObject has a bounding box no
\* step (Tj, TJ or Td, with whatever matrices) changes x_min or y_min.
C24_OriginFixed ==
    [][/\ SetsOrigin =>
            /\ \E m \in Matrices : Shows(m)
            /\ \A m \in Matrices : Shows(m) =>
                  /\ page'._text_object.bounding_box.x_min = CeilTenths(TranslationRow(m.tm, m.cm).x)
                  /\ page'._text_object.bounding_box.y_min = CeilTenths(TranslationRow(m.tm, m.cm).y)
       /\ (page._text_object.bounding_box # None /\ page'._text_object.bounding_box # None) =>
            /\ page'._text_object.bounding_box.x_min = page._text_object.bounding_box.x_min
            /\ page'._text_object.bounding_box.y_min = page._text_object.bounding_box.y_min]_vars

\* three shows and a Td on one partial TextObject after the Tf
C24_Witness ==
    /\ pc = "running"
    /\ nops = 5
    /\ page.text_objects = <<>>
    /\ page._text_object.bounding_box # None
    /\ Len(page._text_object.content) >= 4
    /\ \E i \in DOMAIN page._text_object.content :
          page._text_object.content[i] \in {TAB, PRECEDES, RETURN}

Max(a, b) == IF a >= b THEN a ELSE b

\* the sum of the font dictionary's widths of the codes of a byte string
RECURSIVE WidthOf(_, _)
WidthOf(font, byte_string) ==
    IF byte_string = <<>> THEN 0
    ELSE LET dictionary == FontDictionaries[font.font_dictionary]
         IN  dictionary.Widths[Head(byte_string) - dictionary.FirstChar + 1]
                + WidthOf(font, Tail(byte_string))

\* the glyphs the font's ToUnicode table gives for the codes of a byte string
RECURSIVE GlyphsOf(_, _)
GlyphsOf(font, byte_string) ==
    IF byte_string = <<>> THEN <<>>
    ELSE FontDictionaries[font.font_dictionary].ToUnicode[Head(byte_string)]
            \o GlyphsOf(font, Tail(byte_string))

\* what one element of a Tj/TJ operand adds to x_displacement, in tenths:
\* width / 1000 * size for a string, n / 1000 * size for a number
Advance(font, element) ==
    IF "bytes" \in DOMAIN element
    THEN (WidthOf(font, element.bytes) * font.size) \div 100
    ELSE (element.number * font.size) \div 100

\* the glyphs one element appends to the content
Glyphs(font, element) ==
    IF "bytes" \in DOMAIN element THEN GlyphsOf(font, element.bytes) ELSE <<>>

\* x_displacement, width and content after the elements, one after the
\* other: width is max(previous width, x_displacement) rounded up
RECURSIVE AfterElements(_, _, _)
AfterElements(font, now, elements) ==
    IF elements = <<>> THEN now
    ELSE LET x == now.x_displacement + Advance(font, Head(elements))
         IN  AfterElements(font,
                           [x_displacement |-> x,
                            width |-> Max(now.width, CeilTenths(x)),
                            content |-> now.content \o Glyphs(font, Head(elements))],
                           Tail(elements))

\* the partial TextObject before a show: its width is 0 at the first show
BeforeShow ==
    [x_displacement |-> page._x_displacement,
     width |-> IF page._text_object.bounding_box = None THEN 0
               ELSE page._text_object.bounding_box.width,
     content |-> page._text_object.content]

AfterShow ==
    [x_displacement |-> page'._x_displacement,
     width |-> page'._text_object.bounding_box.width,
     content |-> page'._text_object.content]

\* a step that appends to the content of a partial TextObject with a box
\* (a show, or a Td that appends a delimiter)
Appends ==
    /\ pc' = "running"
    /\ page'._text_object.bounding_box # None
    /\ page'.text_objects = page.text_objects
    /\ Len(page'._text_object.content) > Len(page._text_object.content)

\* C25: within one partial TextObject the width is 0 at the first show,
\* never decreases, and after each Tj string or TJ element is
\* max(previous width, x_displacement) rounded up; a TJ number n moves
\* x_displacement by n / 1000 * size and appends nothing.  Every emitted
\* TextObject with a bounding box has width >= 0 and
\* x_min <= x_center <= x_max.
C25_WidthMonotone ==
    [][/\ (page._text_object.bounding_box # None /\ page'._text_object.bounding_box # None)
            => page'._text_object.bounding_box.width >= page._text_object.bounding_box.width
       /\ Appends =>
            /\ \A operands \in TjOperands :
                  (\E m \in Matrices : Visit(_show_text_string(page, operands, m.cm, m.tm)))
                      => AfterShow = AfterElements(page._font, BeforeShow, <<[bytes |-> operands[1]]>>)
            /\ \A operands \in TJOperands :
                  (\E m \in Matrices : Visit(_show_text_strings(page, operands, m.cm, m.tm)))
                      => AfterShow = AfterElements(page._font, BeforeShow, operands[1])
       /\ Finalizes =>
            LET box == Last(page'.text_objects).bounding_box
            IN  box # None =>
                  /\ box.width >= 0
                  /\ box.x_min <= x_center(box)
                  /\ x_center(box) <= x_max(box)]_vars

\* TJ [(a) -700 ( )] as first show: x_displacement went 5, -2, 1 and the
\* width stayed 5
C25_Witness ==
    /\ pc = "running"
    /\ page._text_object.bounding_box # None
    /\ page._text_object.content = <<"a", " ">>
    /\ page._x_displacement = 10
    /\ page._text_object.bounding_box.width = 5

(***************************************************************************)
(* parsimonious/grammar.py: the attribute rules of _BASE_RULES             *)
(***************************************************************************)
\* coordinates = digit+ separator digit+ separator digit+ separator, then one
\* of light, regular, bold: the text between attr_open and attr_close
CoordinatesAndWeight(s) ==
    LET fields == SplitAt(s, "|")
    IN  /\ Len(fields) = 4
        /\ \A i \in 1..3 : IsNumeral(fields[i])
        /\ fields[4] \in {LIGHT, REGULAR, BOLD}

\* attr_light / attr_regular / attr_bold match the whole of s
MatchesAttr(s) ==
    /\ Len(s) >= 3
    /\ Head(s) = ATTRIBUTES_OPEN
    /\ s[Len(s) - 1] = ATTRIBUTES_CLOSE
    /\ Last(s) = END_OBJECT
    /\ CoordinatesAndWeight(SubSeq(s, 2, Len(s) - 2))

\* character, tab, precedes or return matches c
MatchesCharacterOrDelimiter(c) ==
    c \notin {END_OBJECT, ATTRIBUTES_OPEN, ATTRIBUTES_CLOSE}

\* C26: every emitted TextObject that serialize accepts is serialized to
\* content of `character` matches and TAB / PRECEDES / RETURN, followed by an
\* envelope that attr_light, attr_regular or attr_bold matches, whatever the
\* origin (negative x coordinates included) and the font weight.
C26_EnvelopeAccepted ==
    \A i \in DOMAIN page.text_objects :
        LET text_object == page.text_objects[i]
            n == Len(text_object.content)
        IN  ~SerializeRaises(text_object) =>
                /\ \A k \in 1..n : MatchesCharacterOrDelimiter(text_object.content[k])
                /\ MatchesAttr(SubSeq(Serialize(text_object), n + 1,
                                      Len(Serialize(text_object))))

(***************************************************************************)
(* parsimonious/nodes.py: the visitor _add_model_visitor makes for a       *)
(* record rule.  A dict is a function from its keys; a value is            *)
(* [str |-> ...], [int |-> ...], [dict |-> ...] or [list |-> ...]; a       *)
(* visited child is [dict |-> ...], [str |-> ...], the parse node itself   *)
(* or [items |-> ...], a list of visited children.                         *)
(***************************************************************************)
\* the most children a record rule is given
MaxChildren == 3

Node == [node |-> TRUE]

\* NodeVisitor.flatten: nodes are dropped, lists are flattened, in order
RECURSIVE flatten(_)
flatten(visited_children) ==
    IF visited_children = <<>> THEN <<>>
    ELSE LET item == Head(visited_children)
         IN  (IF item = Node THEN <<>>
              ELSE IF "items" \in DOMAIN item THEN flatten(item.items)
              ELSE <<item>>)
             \o flatten(Tail(visited_children))

\* the body of the loop with `+= value` in place of `+= " " + value`
FoldChildWithoutSpace(folded, child, list_fields) ==
    IF folded.raised THEN folded
    ELSE IF "dict" \notin DOMAIN child THEN folded
    ELSE IF Cardinality(DOMAIN child.dict) # 1 THEN folded
    ELSE LET key == CHOOSE k \in DOMAIN child.dict : TRUE
             value == child.dict[key]
             model == folded.model
         IN  IF key \in list_fields
             THEN IF "list" \in DOMAIN value
                  THEN [folded EXCEPT !.model[key].list = @ \o value.list]
                  ELSE [folded EXCEPT !.model[key].list = Append(@, value)]
             ELSE IF key \in DOMAIN model
             THEN IF "str" \in DOMAIN model[key]
                  THEN IF "str" \in DOMAIN value
                       THEN [folded EXCEPT !.model[key].str = @ \o value.str]
                       ELSE [folded EXCEPT !.raised = TRUE]
                  ELSE folded
             ELSE [folded EXCEPT !.model = model @@ (key :> value)]

\* the body of the loop over the flattened children; str + " " + value
\* raises TypeError when value is no str
FoldChild(folded, child, list_fields) ==
    IF folded.raised THEN folded
    ELSE IF "dict" \notin DOMAIN child THEN folded
    ELSE IF Cardinality(DOMAIN child.dict) # 1 THEN folded
    ELSE LET key == CHOOSE k \in DOMAIN child.dict : TRUE
             value == child.dict[key]
             model == folded.model
         IN  IF key \in list_fields
             THEN IF "list" \in DOMAIN value
                  THEN [folded EXCEPT !.model[key].list = @ \o value.list]
                  ELSE [folded EXCEPT !.model[key].list = Append(@, value)]
             ELSE IF key \in DOMAIN model
             THEN IF "str" \in DOMAIN model[key]
                  THEN IF "str" \in DOMAIN value
                       THEN [folded EXCEPT !.model[key].str = @ \o <<" ">> \o value.str]
                       ELSE [folded EXCEPT !.raised = TRUE]
                  ELSE folded
             ELSE [folded EXCEPT !.model = model @@ (key :> value)]

RECURSIVE FoldChildren(_, _, _)
FoldChildren(folded, children, list_fields) ==
    IF children = <<>> THEN folded
    ELSE FoldChildren(FoldChild(folded, Head(children), list_fields),
                      Tail(children), list_fields)

\* _visitor(self, node, visited_children) of _add_model_visitor(field_name,
\* model_class, include_key), list_fields being those of model_class
_visitor(field_name, list_fields, include_key, visited_children) ==
    LET model == [field \in list_fields |-> [list |-> <<>>]]
        folded == FoldChildren([raised |-> FALSE, model |-> model],
                               flatten(visited_children), list_fields)
    IN  IF folded.raised THEN [raised |-> TRUE]
        ELSE IF include_key
        THEN [raised |-> FALSE, returned |-> (field_name :> [dict |-> folded.model])]
        ELSE [raised |-> FALSE, returned |-> folded.model]

\* RosterProfile: the fields that are lists, by validation_alias
ListFields == {"small_table", "large_table"}

\* what the visitors of RosterProfile's fields return: one visitor per field
\* name, so the values of one key are all of one type
Results ==
    {[dict |-> ("team_name" :> [str |-> <<"A">>])],
     [dict |-> ("team_name" :> [str |-> <<"B">>])],
     [dict |-> ("gam_available" :> [int |-> 1])],
     [dict |-> ("gam_available" :> [int |-> 2])],
     [dict |-> ("small_table" :> [dict |-> <<"T">>])],
     [dict |-> ("large_table" :> [list |-> << [dict |-> <<"U">>], [dict |-> <<"V">>] >>])]}

\* what else a rule's children can be: a dict of two keys, a bare string, the
\* node of an unnamed expression, a list of visited children
VisitedChildren ==
    Results
    \cup {[dict |-> ("team_name" :> [str |-> <<"C">>]) @@ ("gam_available" :> [int |-> 3])],
          [str |-> <<"x">>],
          Node,
          [items |-> << [dict |-> ("team_name" :> [str |-> <<"D">>])], Node,
                        [dict |-> ("small_table" :> [dict |-> <<"W">>])] >>]}

VisitorCalls ==
    {[fn |-> "_visitor", field_name |-> IF include_key THEN "roster_profile" ELSE "root",
      include_key |-> include_key, visited_children |-> c] :
        include_key \in BOOLEAN,
        c \in UNION {[1..n -> VisitedChildren] : n \in 0..MaxChildren}}

\* visit_<field_name>(node, visited_children)
visit ==
    /\ fn_call # None
    /\ fn_call.fn = "_visitor"
    /\ fn_result = None
    /\ fn_result' = _visitor(fn_call.field_name, ListFields, fn_call.include_key,
                             fn_call.visited_children)
    /\ UNCHANGED <<pageVars, pdfVars, teamVars, fn_call>>

InitVisitor ==
    /\ NoPage
    /\ NoPdf
    /\ NoTeam
    /\ fn_call \in VisitorCalls
    /\ fn_result = None

NextVisitor == visit

SpecVisitor == InitVisitor /\ [][NextVisitor]_vars

\* the children that are maps of one key, in visit order
IsSingleKeyMap(child) ==
    "dict" \in DOMAIN child /\ Cardinality(DOMAIN child.dict) = 1

KeyOf(child) == CHOOSE k \in DOMAIN child.dict : TRUE

\* the values the single-key maps among the children give for key k, in order
RECURSIVE ValuesOf(_, _)
ValuesOf(children, k) ==
    IF children = <<>> THEN <<>>
    ELSE (IF IsSingleKeyMap(Head(children)) /\ KeyOf(Head(children)) = k
          THEN <<Head(children).dict[k]>> ELSE <<>>)
         \o ValuesOf(Tail(children), k)

\* a list field: each value appended, a list value extended
RECURSIVE Collected(_)
Collected(values) ==
    IF values = <<>> THEN <<>>
    ELSE (IF "list" \in DOMAIN Head(values) THEN Head(values).list ELSE <<Head(values)>>)
         \o Collected(Tail(values))

\* strings joined with one space
RECURSIVE Spaced(_)
Spaced(values) ==
    IF Len(values) = 1 THEN values[1].str
    ELSE values[1].str \o <<" ">> \o Spaced(Tail(values))

\* the value the folded map holds for key k
FoldedValue(children, k) ==
    LET values == ValuesOf(children, k)
    IN  IF k \in ListFields THEN [list |-> Collected(values)]
        ELSE IF "str" \in DOMAIN values[1] THEN [str |-> Spaced(values)]
        ELSE values[1]

\* the folded map of the call
FoldedMap ==
    LET children == flatten(fn_call.visited_children)
        keys == ListFields \cup {KeyOf(children[i]) :
                                    i \in {j \in DOMAIN children : IsSingleKeyMap(children[j])}}
    IN  [k \in keys |-> FoldedValue(children, k)]

\* C27: a record rule's result has every list field (empty at first), each
\* single-key map folded in visit order (list field: appended or extended;
\* repeated string: joined with one space; repeated other value: the first
\* kept; new key: inserted), every other child discarded; the root rule
\* returns the map bare, every other rule under its rule name.
C27_FoldedRecord ==
    fn_result # None =>
        /\ ~fn_result.raised
        /\ IF fn_call.field_name = "root"
           THEN fn_result.returned = FoldedMap
           ELSE fn_result.returned = (fn_call.field_name :> [dict |-> FoldedMap])

\* two team_name strings joined with one space, two small tables collected,
\* one of each from a nested list of children
C27_Witness ==
    /\ fn_result # None
    /\ fn_call.field_name = "roster_profile"
    /\ Len(fn_call.visited_children) = 3
    /\ ~fn_result.raised
    /\ "team_name" \in DOMAIN fn_result.returned["roster_profile"].dict
    /\ fn_result.returned["roster_profile"].dict["team_name"].str = <<"A", " ", "D">>
    /\ Len(fn_result.returned["roster_profile"].dict["small_table"].list) = 2

\* C28: the font attached to a TextObject at finalization is the font that
\* was current at every Tj/TJ that gave it content: a finalized object gets
\* the font in force before the step, and a step that changes the current
\* font (Tf, Q) leaves a partial TextObject without content.
C28_FontCarried ==
    [][/\ Finalizes => Last(page'.text_objects).font = page._font
       /\ page'._font # page._font => page'._text_object.content = <<>>]_vars

\* text shown in one font, then text shown in a font of another weight,
\* both emitted
C28_Witness ==
    /\ pc = "running"
    /\ Len(page.text_objects) = 2
    /\ page.text_objects[1].font # None
    /\ page.text_objects[2].font # None
    /\ Weight(page.text_objects[1].font) # Weight(page.text_objects[2].font)
    /\ page.text_objects[1].bounding_box # None
    /\ page.text_objects[2].bounding_box # None

\* C29: when extract_text returns after operators among which a font was
\* set before the first show and q/Q are balanced, the partial TextObject
\* holds no glyph that a Tj/TJ decoded and that was never emitted, text
\* shown after the last ET, Q, Tf or finalizing Td included (whitespace and
\* the Td delimiters aside).
C29_NoShownTextLost ==
    (pc = "returned" /\ page._font # None /\ page._font_stack = <<>>) =>
        \A i \in DOMAIN page._text_object.content :
            page._text_object.content[i] \in Whitespace \cup {TAB, PRECEDES, RETURN}

\* some row of an international table contains "+"
ExemptionListed ==
    \E row \in RowsOf(INTERNATIONAL) : Contains(Str(row.player_name), <<"+">>)

\* C30: in a Team that to_team returns, canadian_international_slot_exemption
\* is null for every player when no row of an international table contains
\* "+" and non-null for every player otherwise, and a player whose exemption
\* is true has international_slot true.
C30_ExemptionUniform ==
    team_pc = "returned" =>
        \A i \in DOMAIN team.players :
            /\ team.players[i].canadian_international_slot_exemption = "None"
                  <=> ~ExemptionListed
            /\ team.players[i].canadian_international_slot_exemption = "True"
                  => team.players[i].international_slot

\* one player with the exemption and one without it, in one Team
C30_Witness ==
    /\ team_pc = "returned"
    /\ \E i \in DOMAIN team.players :
          /\ team.players[i].canadian_international_slot_exemption = "True"
          /\ team.players[i].international_slot
    /\ \E i \in DOMAIN team.players :
          /\ team.players[i].canadian_international_slot_exemption = "False"
          /\ ~team.players[i].international_slot

====
